---------------------------- MODULE Spec2Model ----------------------------
(***************************************************************************)
(* A model of the sandboxed filesystem gateway of hass-codemirror /        *)
(* Blueprint Studio: path resolution (util.py), the allow / protect lists  *)
(* (const.py) and the FileManager (file_manager.py).                       *)
(*                                                                         *)
(* Strings are sequences of one-character strings, so that startswith,     *)
(* suffix, lower, strip, split and the sort order are computed, not        *)
(* assumed.  A client path is kept in its split("/") form: the non-empty   *)
(* sequence of its segments ("" is <<>>, "a//b" is <<a, <<>>, b>>).         *)
(***************************************************************************)
EXTENDS Integers, Sequences, FiniteSets, TLC

VARIABLES
  fs,               \* the host filesystem: absolute path -> node
  cache,            \* FileManager._file_cache: show_hidden -> sorted entries
  lastCacheUpdate,  \* FileManager._last_cache_update
  now,              \* time.time()
  resp,             \* the result of the last handler that ran
  touched,          \* absolute paths whose content or size the last handler read or wrote
  events,           \* hass.bus events fired so far
  nOps,             \* number of handlers run so far
  meta,             \* history: cache key -> when its last walk succeeded, and its entries
  fsVer,            \* history: number of handlers that have changed the filesystem
  lastRet,          \* history: show_hidden -> what the last list_all with that flag returned
  lock,             \* FileManager._cache_lock: the thread that holds it, or NoThread
  threads,          \* the calls that run on executor threads, each with its position
  pool,             \* the ThreadPoolExecutor of one search or replace call
  ws                \* the websocket connections: subscriptions, and the messages sent

vars == <<fs, cache, lastCacheUpdate, now, resp, touched, events, nOps, meta, fsVer, lastRet,
          lock, threads, pool, ws>>

\* what a gateway that runs one handler at a time leaves alone
conc == <<lock, threads, pool, ws>>

---------------------------------------------------------------------------
(* Names *)

EMPTY  == <<>>
DOT    == <<".">>
DOTDOT == <<".", ".">>

n_config  == <<"c","o","n","f","i","g">>
n_etc     == <<"e","t","c">>
n_passwd  == <<"p","a","s","s","w","d">>
n_a       == <<"a">>
n_l       == <<"l">>
n_n       == <<"n">>
n_b_py    == <<"b",".","p","y">>
n_n_py    == <<"n",".","p","y">>
n_x_exe   == <<"x",".","e","x","e">>
n_p_py    == <<"p",".","p","y">>
n_core    == <<"c","o","r","e">>
n_deps    == <<"d","e","p","s">>
n_storage == <<".","s","t","o","r","a","g","e">>
n_secrets == <<"s","e","c","r","e","t","s",".","y","a","m","l">>
n_gitignore == <<".","g","i","t","i","g","n","o","r","e">>

---------------------------------------------------------------------------
(* const.py *)

ALLOWED_EXTENSIONS ==
  { <<".","y","a","m","l">>, <<".","y","m","l">>, <<".","j","s","o","n">>, <<".","p","y">>,
    <<".","j","s">>, <<".","c","s","s">>, <<".","h","t","m","l">>, <<".","t","x","t">>,
    <<".","c","s","v">>, <<".","m","d">>, <<".","c","o","n","f">>, <<".","c","f","g">>,
    <<".","i","n","i">>, <<".","s","h">>, <<".","l","o","g">>,
    <<".","g","i","t","i","g","n","o","r","e">>, <<".","j","i","n","j","a">>,
    <<".","j","i","n","j","a","2">>, <<".","j","2">>, <<".","d","b">>, <<".","s","q","l","i","t","e">>,
    <<".","p","e","m">>, <<".","c","r","t">>, <<".","k","e","y">>, <<".","d","e","r">>,
    <<".","b","i","n">>, <<".","o","t","a">>, <<".","c","p","p">>, <<".","h">>, <<".","t","a","r">>,
    <<".","g","z">>, <<".","l","o","c","k">>, <<".","j","p","g">>, <<".","j","p","e","g">>,
    <<".","p","n","g">>, <<".","g","i","f">>, <<".","b","m","p">>, <<".","s","v","g">>,
    <<".","w","e","b","p">>, <<".","i","c","o">>, <<".","p","d","f">>, <<".","z","i","p">>,
    <<".","m","p","4">>, <<".","w","e","b","m">>, <<".","m","o","v">>, <<".","a","v","i">>,
    <<".","m","k","v">>, <<".","f","l","v">>, <<".","w","m","v">>, <<".","m","4","v">> }

BINARY_EXTENSIONS ==
  { <<".","j","p","g">>, <<".","j","p","e","g">>, <<".","p","n","g">>, <<".","g","i","f">>,
    <<".","b","m","p">>, <<".","w","e","b","p">>, <<".","i","c","o">>, <<".","p","d","f">>,
    <<".","z","i","p">>, <<".","d","b">>, <<".","s","q","l","i","t","e">>, <<".","d","e","r">>,
    <<".","b","i","n">>, <<".","o","t","a">>, <<".","t","a","r">>, <<".","g","z">>, <<".","m","p","4">>,
    <<".","w","e","b","m">>, <<".","m","o","v">>, <<".","a","v","i">>, <<".","m","k","v">>,
    <<".","f","l","v">>, <<".","w","m","v">>, <<".","m","4","v">> }

ALLOWED_FILENAMES ==
  { <<".","g","i","t","i","g","n","o","r","e">>, <<".","h","a","_","r","u","n",".","l","o","c","k">> }

EXCLUDED_PATTERNS ==
  { <<"_","_","p","y","c","a","c","h","e","_","_">>, <<".","g","i","t">>, <<".","c","a","c","h","e">>,
    <<"d","e","p","s">>, <<"t","t","s">>,
    <<".","g","i","t","_","c","r","e","d","e","n","t","i","a","l","_","h","e","l","p","e","r">> }

PROTECTED_PATHS ==
  { <<"c","o","n","f","i","g","u","r","a","t","i","o","n",".","y","a","m","l">>,
    <<"s","e","c","r","e","t","s",".","y","a","m","l">>,
    <<"h","o","m","e","-","a","s","s","i","s","t","a","n","t",".","l","o","g">>,
    <<".","s","t","o","r","a","g","e">> }

---------------------------------------------------------------------------
(* Strings and pure paths *)

\* s[:-1]
Front(s) == SubSeq(s, 1, Len(s) - 1)

\* pathlib's is_relative_to: component-wise prefix
IsRelativeTo(p, base) ==
  /\ Len(base) <= Len(p)
  /\ SubSeq(p, 1, Len(base)) = base

\* pathlib's relative_to, defined where IsRelativeTo holds
RelativeTo(p, base) == SubSeq(p, Len(base) + 1, Len(p))

\* str.lstrip("/") on the split form: each leading "/" is one leading empty segment
RECURSIVE LStripSlash(_)
LStripSlash(p) ==
  IF Len(p) > 1 /\ Head(p) = EMPTY THEN LStripSlash(Tail(p)) ELSE p

\* str.rstrip("/") on the split form
RECURSIVE RStripSlash(_)
RStripSlash(p) ==
  IF Len(p) > 1 /\ p[Len(p)] = EMPTY THEN RStripSlash(Front(p)) ELSE p

\* str.strip("/")
StripSlash(p) == RStripSlash(LStripSlash(p))

\* str.startswith(".")
StartsWithDot(name) == Len(name) > 0 /\ name[1] = "."

\* the characters that occur in names, in code-point order (str comparison)
AsciiOrder ==
  << "-", ".", "/", "0", "1", "2", "3", "4", "5", "6", "7", "8", "9",
     "A", "B", "C", "D", "E", "F", "G", "H", "I", "J", "K", "L", "M",
     "N", "O", "P", "Q", "R", "S", "T", "U", "V", "W", "X", "Y", "Z", "_",
     "a", "b", "c", "d", "e", "f", "g", "h", "i", "j", "k", "l", "m",
     "n", "o", "p", "q", "r", "s", "t", "u", "v", "w", "x", "y", "z" >>

Ord(c) == CHOOSE i \in 1..Len(AsciiOrder) : AsciiOrder[i] = c

UpperChars == SubSeq(AsciiOrder, 14, 39)
LowerChars == SubSeq(AsciiOrder, 41, 66)

\* str.lower()
LowerChar(c) ==
  IF \E i \in 1..Len(UpperChars) : UpperChars[i] = c
    THEN LowerChars[CHOOSE i \in 1..Len(UpperChars) : UpperChars[i] = c]
    ELSE c
Lower(s) == [i \in 1..Len(s) |-> LowerChar(s[i])]

\* str < str: decided at the first position where the two differ, or by length
StrLess(s, t) ==
  LET n    == IF Len(s) <= Len(t) THEN Len(s) ELSE Len(t)
      diff == {i \in 1..n : s[i] # t[i]}
  IN  IF diff = {} THEN Len(s) < Len(t)
      ELSE LET i == CHOOSE k \in diff : \A j \in diff : k <= j
           IN  Ord(s[i]) < Ord(t[i])

\* "/".join(segments): str(PurePath) of a relative path
RECURSIVE JoinSlash(_)
JoinSlash(segs) ==
  IF segs = <<>> THEN <<>>
  ELSE IF Len(segs) = 1 THEN segs[1]
  ELSE segs[1] \o <<"/">> \o JoinSlash(Tail(segs))

\* PurePath.name
PathName(p) == IF p = <<>> THEN EMPTY ELSE p[Len(p)]

\* PurePath.suffix: from the last "." unless it is the first or last character
Suffix(name) ==
  LET dots == {i \in 1..Len(name) : name[i] = "."}
      i    == IF dots = {} THEN 0 ELSE CHOOSE k \in dots : \A j \in dots : j <= k
  IN  IF 1 < i /\ i < Len(name) THEN SubSeq(name, i, Len(name)) ELSE <<>>

\* the elements of a sequence
Range(s) == {s[i] : i \in 1..Len(s)}

\* sorted(names): a set of strings in ascending order
RECURSIVE SortedNames(_)
SortedNames(S) ==
  IF S = {} THEN <<>>
  ELSE LET m == CHOOSE x \in S : \A y \in S \ {x} : StrLess(x, y)
       IN  <<m>> \o SortedNames(S \ {m})

---------------------------------------------------------------------------
(* The filesystem *)

\* FileManager.config_dir, the sandbox root
ConfigDir == <<n_config>>

NoTarget == [abs |-> FALSE, segs |-> <<>>]
Dir == [kind |-> "dir", content |-> <<>>, target |-> NoTarget]
File(c) == [kind |-> "file", content |-> c, target |-> NoTarget]
Link(isAbs, segs) == [kind |-> "link", content |-> <<>>, target |-> [abs |-> isAbs, segs |-> segs]]

\* os.lstat(...) says symlink
IsLink(f, p) == p \in DOMAIN f /\ f[p].kind = "link"

\* posixpath._joinrealpath, non-strict: "path" is resolved so far, "rest" is
\* still to walk.  A ".." pops the resolved path; a symlink's target is walked
\* from the root (absolute) or from the link's directory (relative).
RECURSIVE JoinRealPath(_, _, _)
JoinRealPath(f, path, rest) ==
  IF rest = <<>> THEN path
  ELSE LET name == Head(rest)
           tl   == Tail(rest)
       IN  IF name = EMPTY \/ name = DOT THEN JoinRealPath(f, path, tl)
           ELSE IF name = DOTDOT
             THEN JoinRealPath(f, IF path = <<>> THEN <<>> ELSE Front(path), tl)
           ELSE LET newpath == Append(path, name)
                IN  IF IsLink(f, newpath)
                      THEN JoinRealPath(f,
                             IF f[newpath].target.abs THEN <<>> ELSE path,
                             f[newpath].target.segs \o tl)
                      ELSE JoinRealPath(f, newpath, tl)

\* (config_dir / path.lstrip("/")).resolve()
ResolveUnder(f, config_dir, path) ==
  JoinRealPath(f, <<>>, config_dir \o LStripSlash(path))

\* a faulty variant of is_path_safe: the containment test is made on the joined path
\* before it is resolved, with ".." applied textually
IsPathSafeLexical(f, config_dir, path) ==
  IsRelativeTo(JoinRealPath(<<>>, <<>>, config_dir \o LStripSlash(path)), config_dir)

\* util.is_path_safe
is_path_safe(f, config_dir, path) ==
  IsRelativeTo(ResolveUnder(f, config_dir, path), config_dir)

\* util.get_safe_path: {} is None, {p} is the resolved path p
get_safe_path(f, config_dir, path) ==
  IF ~is_path_safe(f, config_dir, path) THEN {}
  ELSE {ResolveUnder(f, config_dir, path)}


---------------------------------------------------------------------------
(* What the operating system answers *)

\* the location a path names once every symlink on it is followed
Real(f, p) == JoinRealPath(f, <<>>, p)

\* Path.exists(), Path.is_file(), Path.is_dir(): all follow symlinks
Exists(f, p) == Real(f, p) \in DOMAIN f
IsFile(f, p) == Exists(f, p) /\ f[Real(f, p)].kind = "file"
IsDir(f, p)  == Exists(f, p) /\ f[Real(f, p)].kind = "dir"

\* the entries os.scandir yields for the directory at the resolved path d
Children(f, d) == {p \in DOMAIN f : Len(p) = Len(d) + 1 /\ SubSeq(p, 1, Len(d)) = d}

\* every path at or below p
Subtree(f, p) == {q \in DOMAIN f : IsRelativeTo(q, p)}

\* stat().st_size of a regular file: its length
FileSize(f, p) == Len(f[Real(f, p)].content)

RECURSIVE SumOver(_, _)
SumOver(S, val) ==
  IF S = {} THEN 0
  ELSE LET x == CHOOSE y \in S : TRUE IN val[x] + SumOver(S \ {x}, val)

---------------------------------------------------------------------------
(* FileManager: the allow list, the protected list, folder sizes *)

\* FileManager._get_root_dir
root_dir == ConfigDir

\* FileManager._is_file_allowed
is_file_allowed(path) ==
  \/ IsRelativeTo(path, root_dir) /\ n_storage \in Range(RelativeTo(path, root_dir))
  \/ Lower(Suffix(PathName(path))) \in ALLOWED_EXTENSIONS
  \/ PathName(path) \in ALLOWED_FILENAMES

\* FileManager._is_protected: parts = path.strip("/").split("/")
is_protected(path) ==
  LET parts == StripSlash(path)
  IN  \/ parts[1] \in PROTECTED_PATHS
      \/ Len(parts) = 1 /\ parts[1] \in PROTECTED_PATHS

\* the entries one call of _get_dir_size on the resolved directory d comes to
\* through plain sub-directories alone: every folder between d and the entry is
\* a directory and no symlink
PlainBelow(f, d) ==
  {q \in Subtree(f, d) :
     /\ q # d
     /\ \A i \in (Len(d) + 1)..(Len(q) - 1) :
          SubSeq(q, 1, i) \in DOMAIN f /\ f[SubSeq(q, 1, i)].kind = "dir"}

\* entry.is_dir() of a symlink: the one case where the recursive call leaves
\* the subtree of its directory
LinkedDir(f, c) == IsLink(f, c) /\ IsDir(f, c)

\* FileManager._get_dir_size: entry.is_file(), entry.is_dir() and entry.stat()
\* follow symlinks, so a linked directory is summed too.  The recursive calls
\* on plain sub-directories are unfolded into PlainBelow; the call on a linked
\* directory stays a call.
RECURSIVE get_dir_size(_, _)
get_dir_size(f, path) ==
  IF ~IsDir(f, path) THEN 0
  ELSE LET below == PlainBelow(f, Real(f, path))
           val == [c \in below |->
                     IF IsFile(f, c) THEN FileSize(f, c)
                     ELSE IF LinkedDir(f, c) THEN get_dir_size(f, c)
                     ELSE 0]
       IN  SumOver({c \in below : f[c].kind # "dir"}, val)

\* the regular files whose size _get_dir_size reads
RECURSIVE DirSizeFiles(_, _)
DirSizeFiles(f, path) ==
  IF ~IsDir(f, path) THEN {}
  ELSE UNION { IF IsFile(f, c) THEN {Real(f, c)}
               ELSE IF LinkedDir(f, c) THEN DirSizeFiles(f, c)
               ELSE {} : c \in PlainBelow(f, Real(f, path)) }

\* the directories one call of _get_dir_size scans
RECURSIVE DirSizeDirs(_, _)
DirSizeDirs(f, path) ==
  IF ~IsDir(f, path) THEN {}
  ELSE LET d     == Real(f, path)
           below == PlainBelow(f, d)
       IN  {d} \cup {c \in below : f[c].kind = "dir"}
               \cup UNION { IF ~IsFile(f, c) /\ LinkedDir(f, c) THEN DirSizeDirs(f, c) ELSE {}
                            : c \in below }

---------------------------------------------------------------------------
(* FileManager.list_all: the walk *)

max_files == 50000
max_depth == 20
CacheTtl  == 30

\* the key list_all sorts by: the entry's "path" string
PathKey(e) == JoinSlash(e.path)

\* a faulty variant of SortByPath: the key is the entry's name
RECURSIVE SortByName(_)
SortByName(S) ==
  IF S = {} THEN <<>>
  ELSE LET m == CHOOSE x \in S : \A y \in S \ {x} : ~StrLess(y.name, x.name)
       IN  <<m>> \o SortByName(S \ {m})

\* sorted(res, key=lambda x: x["path"])
RECURSIVE SortByPath(_)
SortByPath(S) ==
  IF S = {} THEN <<>>
  ELSE LET m == CHOOSE x \in S : \A y \in S \ {x} : ~StrLess(PathKey(y), PathKey(x))
       IN  <<m>> \o SortByPath(S \ {m})

\* the dirs of one os.walk step after dirs[:] = [...]: entry.is_dir() follows
\* symlinks, so a symlink to a directory is a dir
WalkDirNames(f, root, show_hidden) ==
  LET all == {PathName(c) : c \in {c \in Children(f, root) : IsDir(f, c)}}
  IN  IF ~show_hidden
        THEN {d \in all : d \notin EXCLUDED_PATTERNS /\ ~StartsWithDot(d)}
        ELSE {d \in all : d \notin EXCLUDED_PATTERNS}

\* the files of one os.walk step: everything that is not a dir, broken links included
WalkFileNames(f, root) ==
  {PathName(c) : c \in {c \in Children(f, root) : ~IsDir(f, c)}}

\* folder_data
FolderEntry(f, root, name) ==
  LET dir_path == Append(root, name)
  IN  [path |-> RelativeTo(dir_path, root_dir), name |-> name, type |-> "folder",
       size |-> get_dir_size(f, dir_path),
       isSymlink |-> IsLink(f, dir_path),
       symlinkTarget |-> IF IsLink(f, dir_path) THEN f[dir_path].target ELSE NoTarget]

\* a faulty variant of FileEntry: the size is not read
FileEntryNoStat(f, root, name) ==
  LET file_path == Append(root, name)
  IN  [path |-> RelativeTo(file_path, root_dir), name |-> name, type |-> "file",
       size |-> 0, isSymlink |-> FALSE, symlinkTarget |-> NoTarget]

\* file_data; a broken link makes stat() raise, and the bare except resets all three
FileEntry(f, root, name) ==
  LET file_path == Append(root, name)
      ok == Exists(f, file_path)
  IN  [path |-> RelativeTo(file_path, root_dir), name |-> name, type |-> "file",
       size |-> IF ok THEN FileSize(f, file_path) ELSE 0,
       isSymlink |-> ok /\ IsLink(f, file_path),
       symlinkTarget |-> IF ok /\ IsLink(f, file_path) THEN f[file_path].target ELSE NoTarget]

\* the test of line 210: the file is listed
WalkFileListed(root, name, show_hidden) ==
  ~((~show_hidden /\ StartsWithDot(name)) \/ ~is_file_allowed(Append(root, name)))

\* the for loop over os.walk.  "stack" holds the directories still to visit, in
\* the order os.walk will yield them (top-down, children before siblings; within
\* one directory the scandir order, taken here as the sorted one).  "file_limit"
\* is the value of max_files; "res" is what was appended before this directory.
RECURSIVE WalkLoopWithin(_, _, _, _, _, _)
WalkLoopWithin(f, show_hidden, stack, res, file_count, file_limit) ==
  IF stack = <<>> THEN res
  ELSE
    LET root  == Head(stack)
        depth == Len(RelativeTo(root, root_dir))
    IN  IF file_count >= file_limit THEN res
        ELSE IF depth >= max_depth
          THEN WalkLoopWithin(f, show_hidden, Tail(stack), res, file_count, file_limit)
        ELSE
          LET dirs   == SortedNames(WalkDirNames(f, root, show_hidden))
              files  == SortedNames(WalkFileNames(f, root))
              room   == file_limit - file_count
              seen   == IF Len(files) <= room THEN Len(files) ELSE room
              count2 == IF Len(files) <= room THEN file_count + Len(files) ELSE file_limit + 1
              folderE == {FolderEntry(f, root, dirs[i]) : i \in 1..Len(dirs)}
              fileE   == {FileEntry(f, root, files[i]) :
                            i \in {j \in 1..seen : WalkFileListed(root, files[j], show_hidden)}}
              \* os.walk does not descend into a symlinked directory
              down    == SelectSeq([i \in 1..Len(dirs) |-> Append(root, dirs[i])],
                                   LAMBDA d : ~IsLink(f, d))
          IN  (res \cup folderE \cup fileE)
                \cup WalkLoopWithin(f, show_hidden, down \o Tail(stack), {}, count2, file_limit)

\* the loop with max_files as list_all sets it
WalkLoop(f, show_hidden, stack, res, file_count) ==
  WalkLoopWithin(f, show_hidden, stack, res, file_count, max_files)

\* the entries of one walk whose max_files is file_limit, sorted by path
WalkWithin(f, show_hidden, file_limit) ==
  SortByPath(WalkLoopWithin(f, show_hidden, <<root_dir>>, {}, 0, file_limit))

\* lines 140-234: the entries of one walk, sorted by path
Walk(f, show_hidden) == SortByPath(WalkLoop(f, show_hidden, <<root_dir>>, {}, 0))

\* the files and folders whose size one walk reads
WalkStats(f, show_hidden, es) ==
  UNION { LET p == root_dir \o es[i].path
          IN  IF es[i].type = "folder" THEN DirSizeFiles(f, p) ELSE {Real(f, p)} \cap DOMAIN f
          : i \in 1..Len(es) }

---------------------------------------------------------------------------
(* What the operating system does.  Every path given to these is a resolved one. *)

\* open(p, "w") succeeds: the parent is a directory and p is not one
WriteOk(f, p) ==
  /\ p # <<>>
  /\ Front(p) \in DOMAIN f /\ f[Front(p)].kind = "dir"
  /\ p \in DOMAIN f => f[p].kind = "file"

\* Path.write_text
WriteFs(f, p, c) == [q \in DOMAIN f \cup {p} |-> IF q = p THEN File(c) ELSE f[q]]

Prefixes(p) == {SubSeq(p, 1, i) : i \in 0..Len(p)}

\* mkdir(parents=True, exist_ok=True) succeeds: nothing on the way is a file
MkdirOk(f, p) == \A q \in Prefixes(p) : q \in DOMAIN f => f[q].kind = "dir"

\* Path.mkdir(parents=True, exist_ok=True), os.makedirs
MkdirFs(f, p) == [q \in DOMAIN f \cup Prefixes(p) |-> IF q \in DOMAIN f THEN f[q] ELSE Dir]

\* Path.unlink on a file, shutil.rmtree on a directory (links inside are removed, not followed)
RemoveFs(f, p) == [q \in DOMAIN f \ Subtree(f, p) |-> f[q]]

\* os.rename(src, dst) succeeds: dst's parent is a directory and dst is not inside src
RenameOk(f, src, dst) ==
  /\ dst # <<>>
  /\ Front(dst) \in DOMAIN f /\ f[Front(dst)].kind = "dir"
  /\ ~IsRelativeTo(dst, src)

\* os.rename: the subtree at src moves to dst
RenameFs(f, src, dst) ==
  LET moved == {dst \o RelativeTo(q, src) : q \in Subtree(f, src)}
      kept  == DOMAIN f \ Subtree(f, src)
  IN  [q \in kept \cup moved |->
         IF q \in moved THEN f[src \o RelativeTo(q, dst)] ELSE f[q]]

\* shutil.copytree(src, dst), symlinks=False: what lands where.  Links are
\* followed: a linked file is copied as a file, a linked directory as a directory.
RECURSIVE CopyTreeMap(_, _, _)
CopyTreeMap(f, src, dst) ==
  LET d == Real(f, src)
  IN  {[to |-> dst, from |-> d, kind |-> "dir"]} \cup
      UNION { IF IsDir(f, c) THEN CopyTreeMap(f, c, Append(dst, PathName(c)))
              ELSE IF IsFile(f, c)
                THEN {[to |-> Append(dst, PathName(c)), from |-> Real(f, c), kind |-> "file"]}
              ELSE {[to |-> Append(dst, PathName(c)), from |-> c, kind |-> "broken"]}
              : c \in Children(f, d) }

\* copytree raises (at the end, with the rest copied) on a dangling link, and
\* at once when dst's parents cannot be made
CopyTreeOk(f, src, dst) ==
  /\ MkdirOk(f, dst)
  /\ \A m \in CopyTreeMap(f, src, dst) : m.kind # "broken"

CopyTreeFs(f, src, dst) ==
  IF ~MkdirOk(f, dst) THEN f
  ELSE LET g  == MkdirFs(f, dst)
           ms == {m \in CopyTreeMap(f, src, dst) : m.kind # "broken"}
           to == {m.to : m \in ms}
       IN  [q \in DOMAIN g \cup to |->
              IF q \in to
                THEN LET m == CHOOSE m \in ms : m.to = q
                     IN  IF m.kind = "dir" THEN Dir ELSE File(f[m.from].content)
                ELSE g[q]]

---------------------------------------------------------------------------
(* FileManager: the handlers.  Each gives [status, fs, fire, touched, body]:
   the HTTP status, the filesystem it leaves, the _fire_update calls it makes
   (in order), the files whose content it read or wrote, and its payload. *)

Ev(action, path) == [action |-> action, path |-> path]
NoPath == <<>>
Rd(p) == [path |-> p, mode |-> "read"]
Wr(p) == [path |-> p, mode |-> "write"]
St(p) == [path |-> p, mode |-> "stat"]

Res(status, f, fire, t, body) ==
  [status |-> status, fs |-> f, fire |-> fire, touched |-> t, body |-> body]

NoBody == <<>>

\* FileManager.read_file
read_file(f, path) ==
  LET safe == get_safe_path(f, root_dir, path) IN
  IF safe = {} \/ \E sp \in safe : ~IsFile(f, sp) THEN Res(404, f, <<>>, {}, NoBody)
  ELSE LET safe_path == CHOOSE sp \in safe : TRUE IN
    IF ~is_file_allowed(safe_path) THEN Res(403, f, <<>>, {}, NoBody)
    ELSE Res(200, f, <<>>, {Rd(safe_path)},
             [content |-> f[safe_path].content,
              is_base64 |-> Lower(Suffix(PathName(safe_path))) \in BINARY_EXTENSIONS])

\* FileManager.get_file_stat
get_file_stat(f, path) ==
  LET safe == get_safe_path(f, root_dir, path) IN
  IF safe = {} \/ \E sp \in safe : ~IsFile(f, sp) THEN Res(404, f, <<>>, {}, NoBody)
  ELSE LET safe_path == CHOOSE sp \in safe : TRUE IN
    IF ~is_file_allowed(safe_path) THEN Res(403, f, <<>>, {}, NoBody)
    ELSE Res(200, f, <<>>, {St(safe_path)}, [size |-> FileSize(f, safe_path)])

\* a faulty variant of write_file: the write is not announced
WriteFileSilent(f, path, content) ==
  LET safe == get_safe_path(f, root_dir, path) IN
  IF safe = {} \/ \E sp \in safe : ~is_file_allowed(sp) THEN Res(403, f, <<>>, {}, NoBody)
  ELSE LET safe_path == CHOOSE sp \in safe : TRUE IN
    IF ~WriteOk(f, safe_path) THEN Res(500, f, <<>>, {}, NoBody)
    ELSE Res(200, WriteFs(f, safe_path, content), <<>>, {Wr(safe_path)}, NoBody)

\* FileManager.write_file
write_file(f, path, content) ==
  LET safe == get_safe_path(f, root_dir, path) IN
  IF safe = {} \/ \E sp \in safe : ~is_file_allowed(sp) THEN Res(403, f, <<>>, {}, NoBody)
  ELSE LET safe_path == CHOOSE sp \in safe : TRUE IN
    IF ~WriteOk(f, safe_path) THEN Res(500, f, <<>>, {}, NoBody)
    ELSE Res(200, WriteFs(f, safe_path, content), <<Ev("write", path)>>,
             {Wr(safe_path)}, NoBody)

\* a faulty variant of create_file: an existing file is written over
CreateFileOverwrites(f, path, content) ==
  LET safe == get_safe_path(f, root_dir, path) IN
  IF safe = {} \/ \E sp \in safe : ~is_file_allowed(sp) THEN Res(403, f, <<>>, {}, NoBody)
  ELSE LET safe_path == CHOOSE sp \in safe : TRUE IN
    IF ~WriteOk(f, safe_path) THEN Res(500, f, <<>>, {}, NoBody)
    ELSE Res(200, WriteFs(f, safe_path, content), <<Ev("create", path)>>,
             {Wr(safe_path)}, [path |-> path])

\* FileManager.create_file (is_base64 = False)
create_file(f, path, content) ==
  LET safe == get_safe_path(f, root_dir, path) IN
  IF safe = {} \/ \E sp \in safe : ~is_file_allowed(sp) THEN Res(403, f, <<>>, {}, NoBody)
  ELSE LET safe_path == CHOOSE sp \in safe : TRUE IN
    IF Exists(f, safe_path) THEN Res(409, f, <<>>, {}, NoBody)
    ELSE IF ~Exists(f, Front(safe_path)) /\ ~MkdirOk(f, Front(safe_path))
      THEN Res(500, f, <<>>, {}, NoBody)
    ELSE LET g == IF ~Exists(f, Front(safe_path)) THEN MkdirFs(f, Front(safe_path)) ELSE f IN
      IF ~WriteOk(g, safe_path) THEN Res(500, g, <<>>, {}, NoBody)
      ELSE Res(200, WriteFs(g, safe_path, content), <<Ev("create", path)>>,
               {Wr(safe_path)}, [path |-> path])

\* FileManager.create_folder
create_folder(f, path) ==
  LET safe == get_safe_path(f, root_dir, path) IN
  IF safe = {} \/ \E sp \in safe : Exists(f, sp) THEN Res(403, f, <<>>, {}, NoBody)
  ELSE LET safe_path == CHOOSE sp \in safe : TRUE IN
    IF ~MkdirOk(f, safe_path) THEN Res(500, f, <<>>, {}, NoBody)
    ELSE Res(200, MkdirFs(f, safe_path), <<Ev("create_folder", path)>>, {}, [path |-> path])

\* a faulty variant of delete: the path is resolved but not checked against the sandbox
DeleteNoSandbox(f, path) ==
  IF is_protected(path) THEN Res(403, f, <<>>, {}, NoBody)
  ELSE LET safe_path == ResolveUnder(f, root_dir, path) IN
    IF ~Exists(f, safe_path) \/ safe_path = root_dir THEN Res(404, f, <<>>, {}, NoBody)
    ELSE Res(200, RemoveFs(f, safe_path), <<Ev("delete", path)>>, {}, NoBody)

\* FileManager.delete
delete(f, path) ==
  IF is_protected(path) THEN Res(403, f, <<>>, {}, NoBody)
  ELSE LET safe == get_safe_path(f, root_dir, path) IN
    IF safe = {} \/ \E sp \in safe : ~Exists(f, sp) \/ sp = root_dir
      THEN Res(404, f, <<>>, {}, NoBody)
    ELSE LET safe_path == CHOOSE sp \in safe : TRUE IN
      Res(200, RemoveFs(f, safe_path), <<Ev("delete", path)>>, {}, NoBody)

\* one turn of delete_multi's loop
DeleteOne(f, path) ==
  IF is_protected(path) THEN f
  ELSE LET safe == get_safe_path(f, root_dir, path) IN
    IF safe = {} \/ \E sp \in safe : ~Exists(f, sp) \/ sp = root_dir THEN f
    ELSE RemoveFs(f, CHOOSE sp \in safe : TRUE)

RECURSIVE DeleteEach(_, _)
DeleteEach(f, paths) ==
  IF paths = <<>> THEN f ELSE DeleteEach(DeleteOne(f, Head(paths)), Tail(paths))

\* FileManager.delete_multi
delete_multi(f, paths) ==
  Res(200, DeleteEach(f, paths), <<Ev("delete_multi", NoPath)>>, {}, NoBody)

\* one turn of move_multi's loop; a rename that raises is logged and skipped
MoveOne(f, dest_folder, path) ==
  IF is_protected(path) THEN f
  ELSE LET safe == get_safe_path(f, root_dir, path) IN
    IF safe = {} \/ \E sp \in safe : ~Exists(f, sp) THEN f
    ELSE LET src  == CHOOSE sp \in safe : TRUE
             dest == Append(dest_folder, PathName(src))
         IN  IF Exists(f, dest) THEN f
             ELSE IF ~RenameOk(f, src, dest) THEN f
             ELSE RenameFs(f, src, dest)

RECURSIVE MoveEach(_, _, _)
MoveEach(f, dest_folder, paths) ==
  IF paths = <<>> THEN f
  ELSE MoveEach(MoveOne(f, dest_folder, Head(paths)), dest_folder, Tail(paths))

\* FileManager.move_multi
move_multi(f, paths, destination) ==
  LET safe == get_safe_path(f, root_dir, destination) IN
  IF safe = {} \/ \E sp \in safe : ~IsDir(f, sp) THEN Res(400, f, <<>>, {}, NoBody)
  ELSE Res(200, MoveEach(f, CHOOSE sp \in safe : TRUE, paths),
           <<Ev("move_multi", NoPath)>>, {}, NoBody)

\* FileManager.copy
copy(f, source, destination) ==
  LET s1 == get_safe_path(f, root_dir, source)
      s2 == get_safe_path(f, root_dir, destination) IN
  IF s1 = {} \/ s2 = {} \/ (\E sp \in s1 : ~Exists(f, sp)) \/ (\E dp \in s2 : Exists(f, dp))
    THEN Res(403, f, <<>>, {}, NoBody)
  ELSE LET src  == CHOOSE sp \in s1 : TRUE
           dest == CHOOSE dp \in s2 : TRUE IN
    IF IsDir(f, src)
      THEN LET rd == {Rd(m.from) : m \in {m \in CopyTreeMap(f, src, dest) : m.kind = "file"}}
               wr == {Wr(m.to)   : m \in {m \in CopyTreeMap(f, src, dest) : m.kind = "file"}}
           IN  IF CopyTreeOk(f, src, dest)
                 THEN Res(200, CopyTreeFs(f, src, dest), <<Ev("copy", destination)>>,
                          rd \cup wr, [path |-> destination])
                 ELSE Res(500, CopyTreeFs(f, src, dest), <<>>,
                          IF MkdirOk(f, dest) THEN rd \cup wr ELSE {}, NoBody)
      ELSE IF WriteOk(f, dest)
        THEN Res(200, WriteFs(f, dest, f[src].content), <<Ev("copy", destination)>>,
                 {Rd(src), Wr(dest)}, [path |-> destination])
        ELSE Res(500, f, <<>>, {}, NoBody)

\* FileManager.rename
rename(f, source, destination) ==
  IF is_protected(source) THEN Res(403, f, <<>>, {}, NoBody)
  ELSE LET s1 == get_safe_path(f, root_dir, source)
           s2 == get_safe_path(f, root_dir, destination) IN
    IF s1 = {} \/ s2 = {} \/ (\E sp \in s1 : ~Exists(f, sp)) \/ (\E dp \in s2 : Exists(f, dp))
      THEN Res(403, f, <<>>, {}, NoBody)
    ELSE LET src  == CHOOSE sp \in s1 : TRUE
             dest == CHOOSE dp \in s2 : TRUE IN
      IF ~RenameOk(f, src, dest) THEN Res(500, f, <<>>, {}, NoBody)
      ELSE Res(200, RenameFs(f, src, dest), <<Ev("rename", destination)>>, {},
               [path |-> destination])

\* the directories os.walk visits under "top" once hidden and excluded names are
\* pruned (archives, search, replace); a symlinked directory is not entered
RECURSIVE PrunedDirs(_, _)
PrunedDirs(f, top) ==
  {top} \cup
  UNION { PrunedDirs(f, c) :
          c \in {c \in Children(f, top) :
                   /\ f[c].kind = "dir"
                   /\ PathName(c) \notin EXCLUDED_PATTERNS
                   /\ ~StartsWithDot(PathName(c))} }

\* the files os.walk yields under "top": every non-directory of a visited directory
PrunedFiles(f, top) ==
  UNION { {c \in Children(f, d) : ~IsDir(f, c)} : d \in PrunedDirs(f, top) }

\* the members FileManager._create_zip writes
ZipMembers(f, folder_path) ==
  {c \in PrunedFiles(f, folder_path) : ~StartsWithDot(PathName(c)) /\ is_file_allowed(c)}

\* FileManager.download_folder; zf.write follows symlinks and raises on a dangling one
download_folder(f, path) ==
  LET safe == get_safe_path(f, root_dir, path) IN
  IF safe = {} \/ \E sp \in safe : ~IsDir(f, sp) THEN Res(404, f, <<>>, {}, NoBody)
  ELSE LET safe_path == CHOOSE sp \in safe : TRUE
           ms == ZipMembers(f, safe_path) IN
    IF \E c \in ms : ~Exists(f, c) THEN Res(500, f, <<>>, {Rd(Real(f, c)) : c \in {c \in ms : Exists(f, c)}}, NoBody)
    ELSE Res(200, f, <<>>, {Rd(Real(f, c)) : c \in ms},
             [filename |-> PathName(safe_path),
              data |-> {[name |-> RelativeTo(c, safe_path), content |-> f[Real(f, c)].content] : c \in ms}])

\* FileManager.upload_file (is_base64 = False)
upload_file(f, path, content, overwrite) ==
  LET safe == get_safe_path(f, root_dir, path) IN
  IF safe = {} \/ \E sp \in safe : ~is_file_allowed(sp) THEN Res(403, f, <<>>, {}, NoBody)
  ELSE LET safe_path == CHOOSE sp \in safe : TRUE IN
    IF Exists(f, safe_path) /\ ~overwrite THEN Res(409, f, <<>>, {}, NoBody)
    ELSE IF ~WriteOk(f, safe_path) THEN Res(500, f, <<>>, {}, NoBody)
    ELSE Res(200, WriteFs(f, safe_path, content), <<Ev("upload", path)>>,
             {Wr(safe_path)}, [path |-> path])

\* ZipFile._extract_member: "", "." and ".." are dropped from the member's name
Sanitized(member) == SelectSeq(member, LAMBDA x : x \notin {EMPTY, DOT, DOTDOT})

\* the loop of upload_folder over zf.namelist(): [fs, n, ok, touched]; open(.., "wb")
\* follows symlinks, and the first member that cannot be written ends the loop
RECURSIVE ExtractEach(_, _, _, _, _)
ExtractEach(f, safe_path, members, n, t) ==
  IF members = <<>> THEN [fs |-> f, n |-> n, ok |-> TRUE, touched |-> t]
  ELSE LET m == Head(members) IN
    IF m.name[Len(m.name)] = EMPTY \/ ~is_file_allowed(safe_path \o m.name)
      THEN ExtractEach(f, safe_path, Tail(members), n, t)
    ELSE LET target == safe_path \o Sanitized(m.name)
             upper  == Front(target)
         IN  IF ~Exists(f, upper) /\ ~MkdirOk(f, Real(f, upper))
               THEN [fs |-> f, n |-> n, ok |-> FALSE, touched |-> t]
             ELSE LET g   == IF ~Exists(f, upper) THEN MkdirFs(f, Real(f, upper)) ELSE f
                      loc == Real(g, target)
                  IN  IF ~WriteOk(g, loc) THEN [fs |-> g, n |-> n, ok |-> FALSE, touched |-> t]
                      ELSE ExtractEach(WriteFs(g, loc, m.content), safe_path, Tail(members),
                                       n + 1, t \cup {Wr(loc)})

\* FileManager.upload_folder
upload_folder(f, path, zip) ==
  LET safe == get_safe_path(f, root_dir, path) IN
  IF safe = {} THEN Res(400, f, <<>>, {}, NoBody)
  ELSE LET safe_path == CHOOSE sp \in safe : TRUE IN
    IF ~Exists(f, safe_path) /\ ~MkdirOk(f, safe_path) THEN Res(500, f, <<>>, {}, NoBody)
    ELSE LET g == IF ~Exists(f, safe_path) THEN MkdirFs(f, safe_path) ELSE f IN
      IF ~zip.valid THEN Res(500, g, <<>>, {}, NoBody)
      ELSE LET x == ExtractEach(g, safe_path, zip.members, 0, {}) IN
        IF ~x.ok THEN Res(500, x.fs, <<>>, x.touched, NoBody)
        ELSE Res(200, x.fs, <<Ev("upload_folder", path)>>, x.touched,
                 [files_extracted |-> x.n])

---------------------------------------------------------------------------
(* FileManager.global_replace: the pattern, the template, the workers *)

\* \w
IsWordChar(c) == \E i \in 4..Len(AsciiOrder) : AsciiOrder[i] = c

\* \b between s[i-1] and s[i]
Boundary(s, i) ==
  LET before == i > 1 /\ IsWordChar(s[i - 1])
      after  == i <= Len(s) /\ IsWordChar(s[i])
  IN  before # after

\* the item of a compiled pattern that an unescaped "." of a regular
\* expression becomes; every other item is the character it stands for
AnyChar == "(?s:.)"

\* one item of the compiled pattern matches the character c; "." matches
\* everything but a newline
ItemMatches(item, c, case_sensitive) ==
  IF item = AnyChar THEN c # "\n"
  ELSE IF case_sensitive THEN c = item
  ELSE LowerChar(c) = LowerChar(item)

\* the compiled pattern matches s at i
MatchAt(s, i, query, case_sensitive, match_word) ==
  /\ i + Len(query) - 1 <= Len(s)
  /\ \A k \in 1..Len(query) : ItemMatches(query[k], s[i + k - 1], case_sensitive)
  /\ match_word => Boundary(s, i) /\ Boundary(s, i + Len(query))

\* the query as api.py hands it over: params.get("query") is None when the
\* request has no such parameter
Query(text) == [null |-> FALSE, text |-> text]
NullQuery   == [null |-> TRUE, text |-> <<>>]

\* what the f-string rf"\b{search_pattern}\b" makes of None
NoneText == <<"N", "o", "n", "e">>

\* re.compile accepts the text; of the characters special to re the queries
\* hold "." and "(" alone, and nothing closes a "("
RegexValid(text) == \A i \in 1..Len(text) : text[i] # "("

RegexItems(text) == [i \in 1..Len(text) |-> IF text[i] = "." THEN AnyChar ELSE text[i]]

\* the pattern build of global_search and global_replace: re.escape(None) and
\* re.compile(None) raise TypeError, re.compile of a bad expression re.error
CompilePattern(query, use_regex, match_word) ==
  IF ~use_regex
    THEN IF query.null THEN [ok |-> FALSE, items |-> <<>>]
         ELSE [ok |-> TRUE, items |-> query.text]
  ELSE IF query.null /\ ~match_word THEN [ok |-> FALSE, items |-> <<>>]
  ELSE LET text == IF query.null THEN NoneText ELSE query.text
       IN  IF RegexValid(text) THEN [ok |-> TRUE, items |-> RegexItems(text)]
           ELSE [ok |-> FALSE, items |-> <<>>]

\* the template item that stands for the whole match, \g<0>
WholeMatch == "\\g<0>"

\* what a backslash and one more character stand for in a template (\a, \b
\* and \v by the names of their characters)
TemplateEscapes ==
  ("\\" :> "\\") @@ ("n" :> "\n") @@ ("t" :> "\t") @@ ("r" :> "\r") @@ ("f" :> "\f")
    @@ ("a" :> "BEL") @@ ("b" :> "BS") @@ ("v" :> "VT")

IsAsciiLetter(c) == c \in Range(UpperChars) \cup Range(LowerChars)

\* re's parse_template for a pattern without groups, from position i on: the
\* items of the template, or ok = FALSE where re.error is raised.  \0 is taken
\* without further octal digits, and group 0 only in the spelling \g<0>.
RECURSIVE ParseTemplate(_, _)
ParseTemplate(t, i) ==
  LET Then(items, j) ==
        LET rest == ParseTemplate(t, j)
        IN  [ok |-> rest.ok, out |-> IF rest.ok THEN items \o rest.out ELSE <<>>]
      Bad == [ok |-> FALSE, out |-> <<>>]
  IN  IF i > Len(t) THEN [ok |-> TRUE, out |-> <<>>]
      ELSE IF t[i] # "\\" THEN Then(<<t[i]>>, i + 1)
      ELSE IF i = Len(t) THEN Bad
      ELSE LET c == t[i + 1] IN
        IF c = "g"
          THEN IF i + 4 <= Len(t) /\ SubSeq(t, i + 2, i + 4) = <<"<", "0", ">">>
                 THEN Then(<<WholeMatch>>, i + 5)
                 ELSE Bad
        ELSE IF c = "0" THEN Then(<<"NUL">>, i + 2)
        ELSE IF c \in {"1", "2", "3", "4", "5", "6", "7", "8", "9"} THEN Bad
        ELSE IF c \in DOMAIN TemplateEscapes THEN Then(<<TemplateEscapes[c]>>, i + 2)
        ELSE IF IsAsciiLetter(c) THEN Bad
        ELSE Then(<<"\\", c>>, i + 2)

\* the text a parsed template gives for one match
RECURSIVE Filled(_, _)
Filled(items, matched) ==
  IF items = <<>> THEN <<>>
  ELSE (IF Head(items) = WholeMatch THEN matched ELSE <<Head(items)>>)
         \o Filled(Tail(items), matched)

\* pattern.subn(template, content) from position i on, for a non-empty query
\* and a parsed template: leftmost non-overlapping matches
RECURSIVE SubnFrom(_, _, _, _, _, _)
SubnFrom(s, i, query, replacement, case_sensitive, match_word) ==
  IF i > Len(s) THEN [out |-> <<>>, count |-> 0]
  ELSE IF MatchAt(s, i, query, case_sensitive, match_word)
    THEN LET r == SubnFrom(s, i + Len(query), query, replacement, case_sensitive, match_word)
         IN  [out |-> Filled(replacement, SubSeq(s, i, i + Len(query) - 1)) \o r.out,
              count |-> r.count + 1]
    ELSE LET r == SubnFrom(s, i + 1, query, replacement, case_sensitive, match_word)
         IN  [out |-> <<s[i]>> \o r.out, count |-> r.count]

\* target_files: allowed, not binary, and the relative path is no protected name
ReplaceTargets(f) ==
  {c \in PrunedFiles(f, root_dir) :
     /\ is_file_allowed(c)
     /\ Lower(Suffix(PathName(c))) \notin BINARY_EXTENSIONS
     /\ JoinSlash(RelativeTo(c, root_dir)) \notin PROTECTED_PATHS}

\* a faulty variant of WritesBack: the file is written back whatever the count
WritesBackAlways(count) == TRUE

\* replace_single_file, "if count > 0": the new content is written and the
\* pair (r_path, count) returned
WritesBack(count) == count > 0

\* the workers' results taken in completion order "order": read_text and
\* write_text follow symlinks; a file that cannot be read, and a template that
\* cannot be parsed once the pattern is found, give None
RECURSIVE ReplaceEach(_, _, _, _, _, _, _)
ReplaceEach(acc, order, i, query, replacement, case_sensitive, match_word) ==
  IF i > Len(order) THEN acc
  ELSE LET c == order[i]
           f == acc.fs
       IN  IF ~IsFile(f, c)
             THEN ReplaceEach(acc, order, i + 1, query, replacement, case_sensitive, match_word)
           ELSE LET loc == Real(f, c)
                    template == ParseTemplate(replacement, 1)
                    r   == IF template.ok
                             THEN SubnFrom(f[loc].content, 1, query, template.out,
                                           case_sensitive, match_word)
                             ELSE [out |-> f[loc].content, count |-> 0]
                IN  IF WritesBack(r.count)
                      THEN ReplaceEach(
                             [fs |-> WriteFs(f, loc, r.out),
                              files_updated |-> acc.files_updated + 1,
                              occurrences |-> acc.occurrences + r.count,
                              fire |-> Append(acc.fire, Ev("write", RelativeTo(c, root_dir))),
                              touched |-> acc.touched \cup {Rd(loc), Wr(loc)}],
                             order, i + 1, query, replacement, case_sensitive, match_word)
                      ELSE ReplaceEach([acc EXCEPT !.touched = @ \cup {Rd(loc)}],
                             order, i + 1, query, replacement, case_sensitive, match_word)

\* every order in which the members of S can complete
Orders(S) ==
  {o \in [1..Cardinality(S) -> S] : \A i, j \in 1..Cardinality(S) : o[i] = o[j] => i = j}

\* FileManager.global_replace
global_replace(f, order, query, replacement, case_sensitive, match_word) ==
  LET x == ReplaceEach([fs |-> f, files_updated |-> 0, occurrences |-> 0,
                        fire |-> <<>>, touched |-> {}],
                       order, 1, query, replacement, case_sensitive, match_word)
  IN  Res(200, x.fs, x.fire, x.touched,
          [success |-> TRUE, files_updated |-> x.files_updated, occurrences |-> x.occurrences])

---------------------------------------------------------------------------
(* FileManager.download_multi *)

\* a file written into an archive: the i-th requested item put the file at
\* "file" in under the name "name"
ZipEntry(i, name, file) == [item |-> i, name |-> name, file |-> file]

\* (Path(root) / f).relative_to(safe.parent)
MultiZipName(c, safe) == RelativeTo(c, Front(safe))

\* _create_multi_zip, "if self._is_file_allowed(safe)" for an item that is a file
DirectFileZipped(safe) == is_file_allowed(safe)

\* one turn of the loop of _create_multi_zip: what the i-th path adds
MultiZipItem(f, p, i) ==
  LET safe == get_safe_path(f, root_dir, p) IN
  IF safe = {} \/ \E sp \in safe : ~Exists(f, sp) THEN {}
  ELSE LET sp == CHOOSE sp \in safe : TRUE
       IN  IF IsFile(f, sp)
             THEN IF DirectFileZipped(sp) THEN {ZipEntry(i, <<PathName(sp)>>, sp)} ELSE {}
           ELSE IF IsDir(f, sp)
             THEN {ZipEntry(i, MultiZipName(c, sp), c) : c \in ZipMembers(f, sp)}
           ELSE {}

\* FileManager._create_multi_zip: the entries in the archive
create_multi_zip(f, paths) ==
  UNION {MultiZipItem(f, paths[i], i) : i \in 1..Len(paths)}

\* FileManager.download_multi; zf.write raises on a dangling symlink, and the
\* handler answers 500 with the message
download_multi(f, paths) ==
  LET entries == create_multi_zip(f, paths)
      read    == {Rd(Real(f, e.file)) : e \in {e \in entries : Exists(f, e.file)}}
  IN  IF \E e \in entries : ~Exists(f, e.file) THEN Res(500, f, <<>>, read, NoBody)
      ELSE Res(200, f, <<>>, read,
               [filename |-> <<"d", "o", "w", "n", "l", "o", "a", "d">>,
                data |-> {[item |-> e.item, name |-> e.name, file |-> e.file,
                           content |-> f[Real(f, e.file)].content] : e \in entries}])

---------------------------------------------------------------------------
(* FileManager.list_directory *)

\* sorted(names, key=str.lower); names that differ in case only are taken in
\* code-point order
RECURSIVE SortedByLower(_)
SortedByLower(S) ==
  IF S = {} THEN <<>>
  ELSE LET Before(x, y) == StrLess(Lower(x), Lower(y)) \/ (Lower(x) = Lower(y) /\ StrLess(x, y))
           m == CHOOSE x \in S : \A y \in S \ {x} : Before(x, y)
       IN  <<m>> \o SortedByLower(S \ {m})

\* a faulty variant of ListItemSkipped: hidden names are never skipped
ListItemSkippedNotHidden(item_name, show_hidden) == item_name \in EXCLUDED_PATTERNS

\* the two "continue" tests at the head of the loop
ListItemSkipped(item_name, show_hidden) ==
  \/ ~show_hidden /\ StartsWithDot(item_name)
  \/ item_name \in EXCLUDED_PATTERNS

\* rel_path: f"{path}/{item_name}", or the name alone at the root
ListRelPath(path, item_name) ==
  IF path # <<EMPTY>> THEN Append(path, item_name) ELSE <<item_name>>

\* folder_data
ListFolderData(f, target_path, path, item_name) ==
  LET item == Append(target_path, item_name)
  IN  [name |-> item_name, path |-> ListRelPath(path, item_name), size |-> 0,
       childCount |-> Cardinality(Children(f, Real(f, item))),
       isSymlink |-> IsLink(f, item),
       symlinkTarget |-> IF IsLink(f, item) THEN f[item].target ELSE NoTarget]

\* file_data, also for a broken symlink
ListFileData(f, target_path, path, item_name) ==
  LET item == Append(target_path, item_name)
  IN  [name |-> item_name, path |-> ListRelPath(path, item_name),
       size |-> IF IsFile(f, item) THEN FileSize(f, item) ELSE 0, type |-> "file",
       isSymlink |-> IsLink(f, item),
       symlinkTarget |-> IF IsLink(f, item) THEN f[item].target ELSE NoTarget,
       isBroken |-> ~Exists(f, item)]

\* the item goes to "files": a regular file that is a symlink or is allowed,
\* or a broken symlink
ListFileShown(f, item) ==
  \/ IsFile(f, item) /\ (IsLink(f, item) \/ is_file_allowed(item))
  \/ ~Exists(f, item) /\ IsLink(f, item)

ListError(path, error) == [path |-> path, folders |-> <<>>, files |-> <<>>, error |-> error]

\* FileManager.list_directory
list_directory(f, path, show_hidden) ==
  LET safe == IF path # <<EMPTY>> THEN get_safe_path(f, root_dir, path) ELSE {root_dir} IN
  IF safe = {} THEN ListError(path, "Access denied")
  ELSE LET target_path == CHOOSE sp \in safe : TRUE IN
    IF ~Exists(f, target_path) THEN ListError(path, "Directory not found")
    ELSE IF ~IsDir(f, target_path) THEN ListError(path, "Not a directory")
    ELSE
      LET names == {PathName(c) : c \in Children(f, target_path)}
          kept  == {n \in names : ~ListItemSkipped(n, show_hidden)}
          dirs  == {n \in kept : IsDir(f, Append(target_path, n))}
          shown == {n \in kept \ dirs : ListFileShown(f, Append(target_path, n))}
          ds    == SortedByLower(dirs)
          fls   == SortedByLower(shown)
      IN  [path |-> path,
           folders |-> [i \in 1..Len(ds) |-> ListFolderData(f, target_path, path, ds[i])],
           files |-> [i \in 1..Len(fls) |-> ListFileData(f, target_path, path, fls[i])],
           error |-> ""]

\* FileManager.list_directory when stat() of the paths in "denied" raises
\* PermissionError (a symlink into a folder that may not be searched, a folder
\* without search permission): exists() of the target and the is_dir() of the
\* sort key (line 306) are called outside the try block of the loop, so the
\* error leaves the loop and the outer except answers
list_directory_denied(f, path, show_hidden, denied) ==
  LET safe == IF path # <<EMPTY>> THEN get_safe_path(f, root_dir, path) ELSE {root_dir} IN
  IF safe = {} THEN ListError(path, "Access denied")
  ELSE LET target_path == CHOOSE sp \in safe : TRUE IN
    IF target_path \in denied THEN ListError(path, "Permission denied")
    ELSE IF ~Exists(f, target_path) \/ ~IsDir(f, target_path)
      THEN list_directory(f, path, show_hidden)
    ELSE IF Children(f, target_path) \cap denied # {}
      THEN ListError(path, "Permission denied")
    ELSE list_directory(f, path, show_hidden)

---------------------------------------------------------------------------
(* FileManager.global_search: the workers and the as_completed loop *)

\* the most matches search_single_file keeps before it tests its break
MaxMatchesPerFile == 100

\* the most matches global_search returns
MaxMatches == 2000

Whitespace == {" ", "\n", "\t", "\r", "\f"}

\* str.strip()
RECURSIVE LStrip(_)
LStrip(s) == IF s # <<>> /\ Head(s) \in Whitespace THEN LStrip(Tail(s)) ELSE s

RECURSIVE RStrip(_)
RStrip(s) == IF s # <<>> /\ s[Len(s)] \in Whitespace THEN RStrip(Front(s)) ELSE s

Strip(s) == RStrip(LStrip(s))

\* iterating a text file: the lines of a content without "\r", each with its
\* "\n"; a line ends at each "\n" and at the end of the content
FileLines(content) ==
  LET IsEnd(i) == content[i] = "\n" \/ i = Len(content)
      ends == SelectSeq([i \in 1..Len(content) |-> i], IsEnd)
  IN  [k \in 1..Len(ends) |->
         SubSeq(content, IF k = 1 THEN 1 ELSE ends[k - 1] + 1, ends[k])]

\* pattern.search(line)
PatternSearch(line, query, case_sensitive, match_word) ==
  \E i \in 1..(Len(line) + 1) : MatchAt(line, i, query, case_sensitive, match_word)

\* the break of search_single_file's loop, tested when local_results holds n
SearchBreak(n) == n > MaxMatchesPerFile

\* search_single_file: open follows symlinks; a file that cannot be opened
\* gives [].  The loop appends the matching lines in order and stops after
\* the first append that makes the break true.
search_single_file(f, c, query, case_sensitive, match_word) ==
  IF ~IsFile(f, c) THEN <<>>
  ELSE LET lines == FileLines(f[Real(f, c)].content)
           r_path == RelativeTo(c, root_dir)
           numbered == [i \in 1..Len(lines) |->
                          [path |-> r_path, line |-> i, content |-> lines[i]]]
           Hit(m) == PatternSearch(m.content, query, case_sensitive, match_word)
           matched == SelectSeq(numbered, Hit)
           broke == {n \in 1..Len(matched) : SearchBreak(n)}
           kept == IF broke = {} THEN Len(matched)
                   ELSE CHOOSE n \in broke : \A m \in broke : n <= m
       IN  [k \in 1..kept |-> [matched[k] EXCEPT !.content = Strip(@)]]

\* a faulty variant of SearchTargets: the allow list is not asked
SearchTargetsAnyFile(f) ==
  {c \in PrunedFiles(f, root_dir) : Lower(Suffix(PathName(c))) \notin BINARY_EXTENSIONS}

\* target_files: allowed and not binary
SearchTargets(f) ==
  {c \in PrunedFiles(f, root_dir) :
     /\ is_file_allowed(c)
     /\ Lower(Suffix(PathName(c))) \notin BINARY_EXTENSIONS}

\* a faulty variant of Truncated: the final slice is left out
TruncatedNot(results) == results

\* results[:MaxMatches]
Truncated(results) ==
  IF Len(results) > MaxMatches THEN SubSeq(results, 1, MaxMatches) ELSE results

\* the as_completed loop from the i-th completed worker on
RECURSIVE SearchEach(_, _, _, _, _, _, _)
SearchEach(f, results, order, i, query, case_sensitive, match_word) ==
  IF i > Len(order) THEN results
  ELSE LET res  == search_single_file(f, order[i], query, case_sensitive, match_word)
           more == results \o res
       IN  IF Len(more) >= MaxMatches THEN more
           ELSE SearchEach(f, more, order, i + 1, query, case_sensitive, match_word)

\* a faulty variant of global_search: a file that cannot be opened raises out
\* of its worker, and the except clause of the call leaves what was gathered
GlobalSearchAborts(f, order, query, case_sensitive, match_word) ==
  LET bad   == {i \in 1..Len(order) : ~IsFile(f, order[i])}
      first == IF bad = {} THEN Len(order) + 1 ELSE CHOOSE i \in bad : \A j \in bad : i <= j
      done  == SubSeq(order, 1, first - 1)
  IN  Res(200, f, <<>>, {Rd(Real(f, c)) : c \in Range(done)},
          Truncated(SearchEach(f, <<>>, done, 1, query, case_sensitive, match_word)))

\* FileManager.global_search: every submitted worker runs, the loop may stop early
global_search(f, order, query, case_sensitive, match_word) ==
  Res(200, f, <<>>,
      {Rd(Real(f, c)) : c \in {c \in Range(order) : IsFile(f, c)}},
      Truncated(SearchEach(f, <<>>, order, 1, query, case_sensitive, match_word)))

---------------------------------------------------------------------------
(* FileManager.global_search and global_replace: the whole call, with the
   pattern build and the include / exclude globs *)

\* str.split(",")
SplitComma(s) ==
  LET IsComma(i) == s[i] = ","
      commas == SelectSeq([i \in 1..Len(s) |-> i], IsComma)
      cut    == <<0>> \o commas \o <<Len(s) + 1>>
  IN  [k \in 1..(Len(commas) + 1) |-> SubSeq(s, cut[k] + 1, cut[k + 1] - 1)]

\* [p.strip() for p in include.split(',') if p.strip()]
GlobPatterns(s) ==
  LET pieces == SplitComma(s)
      NonEmpty(p) == p # <<>>
  IN  SelectSeq([k \in 1..Len(pieces) |-> Strip(pieces[k])], NonEmpty)

\* the regular expression fnmatch.translate makes of pat, matched against the
\* whole of s from s[i] and pat[j] on: "*" is any run of characters, "/"
\* included, "?" is any one character (the patterns hold no "[")
RECURSIVE GlobFrom(_, _, _, _)
GlobFrom(s, i, pat, j) ==
  IF j > Len(pat) THEN i > Len(s)
  ELSE IF pat[j] = "*" THEN \E k \in i..(Len(s) + 1) : GlobFrom(s, k, pat, j + 1)
  ELSE /\ i <= Len(s)
       /\ pat[j] = "?" \/ pat[j] = s[i]
       /\ GlobFrom(s, i + 1, pat, j + 1)

\* fnmatch.fnmatch on a POSIX host, where normcase changes nothing
fnmatch(name, pat) == GlobFrom(name, 1, pat, 1)

\* any(fnmatch(rel_path, p) or fnmatch(name, p) for p in patterns)
AnyGlob(c, patterns) ==
  \E k \in 1..Len(patterns) :
    \/ fnmatch(JoinSlash(RelativeTo(c, root_dir)), patterns[k])
    \/ fnmatch(PathName(c), patterns[k])

\* a faulty variant of GlobKept: a file that an include glob matches is kept
\* whatever the exclude globs say
GlobKeptIncludeWins(c, include, exclude) ==
  LET include_patterns == GlobPatterns(include)
      exclude_patterns == GlobPatterns(exclude)
  IN  IF include_patterns # <<>> THEN AnyGlob(c, include_patterns)
      ELSE ~AnyGlob(c, exclude_patterns)

\* filters 2 and 3 of the collecting loop
GlobKept(c, include, exclude) ==
  LET include_patterns == GlobPatterns(include)
      exclude_patterns == GlobPatterns(exclude)
  IN  /\ include_patterns # <<>> => AnyGlob(c, include_patterns)
      /\ ~AnyGlob(c, exclude_patterns)

\* search_files
search_files(f, include, exclude) ==
  {c \in SearchTargets(f) : GlobKept(c, include, exclude)}

\* target_files
target_files(f, include, exclude) ==
  {c \in ReplaceTargets(f) : GlobKept(c, include, exclude)}

\* the members of "order" that are in S, in the order they have there
Among(order, S) ==
  LET In(c) == c \in S IN SelectSeq(order, In)

\* FileManager.global_search as api.py calls it.  A pattern that cannot be
\* built raises inside the try block before any file is looked at, and the
\* except clause leaves results empty.  "order" ranks the files by the time
\* their worker completes.
global_search_call(f, order, query, case_sensitive, use_regex, match_word, include, exclude) ==
  LET pattern == CompilePattern(query, use_regex, match_word)
  IN  IF ~pattern.ok THEN Res(200, f, <<>>, {}, <<>>)
      ELSE global_search(f, Among(order, search_files(f, include, exclude)),
                         pattern.items, case_sensitive, match_word)

\* FileManager.global_replace as api.py calls it; the except clause answers
\* success False with the message
global_replace_call(f, order, query, replacement, case_sensitive, use_regex, match_word, include, exclude) ==
  LET pattern == CompilePattern(query, use_regex, match_word)
  IN  IF ~pattern.ok
        THEN Res(200, f, <<>>, {}, [success |-> FALSE, files_updated |-> 0, occurrences |-> 0])
      ELSE global_replace(f, Among(order, target_files(f, include, exclude)),
                          pattern.items, replacement, case_sensitive, match_word)

---------------------------------------------------------------------------
(* FileManager.list_all, _fire_update, clear_cache *)

\* self._file_cache = {}
EmptyCache == <<>>

CachePut(c, key, entries) ==
  [k \in DOMAIN c \cup {key} |-> IF k = key THEN entries ELSE c[k]]

\* a faulty variant of CacheKey: both visibility flags share one entry
CacheKeyShared(show_hidden) == FALSE

\* line 133: cache_key = show_hidden
CacheKey(show_hidden) == show_hidden

\* FileManager._fire_update: self._file_cache = {}
fire_update(c) == EmptyCache

\* FileManager.clear_cache
clear_cache(c) == [cache |-> EmptyCache, last |-> 0]

\* a faulty variant of CacheHit: force is not looked at
CacheHitNoForce(c, last, t, cache_key, force) ==
  cache_key \in DOMAIN c /\ t - last < CacheTtl

\* line 134
CacheHit(c, last, t, cache_key, force) ==
  ~force /\ cache_key \in DOMAIN c /\ t - last < CacheTtl

\* a faulty variant of WalkFailed: the failed walk also drops what was cached
WalkFailedDropsCache(c, last, cache_key) ==
  IF cache_key \in DOMAIN c
    THEN [ret |-> c[cache_key], cache |-> EmptyCache, last |-> 0, how |-> "stale"]
    ELSE [ret |-> <<>>, cache |-> EmptyCache, last |-> 0, how |-> "empty"]

\* the except branch of list_all
WalkFailed(c, last, cache_key) ==
  IF cache_key \in DOMAIN c
    THEN [ret |-> c[cache_key], cache |-> c, last |-> last, how |-> "stale"]
    ELSE [ret |-> <<>>, cache |-> c, last |-> last, how |-> "empty"]

\* FileManager.list_all, with the lock held throughout: what it returns and what
\* it leaves in _file_cache and _last_cache_update.  "walk_fails" is the
\* filesystem raising inside the try block.
list_all(c, last, t, f, show_hidden, force, walk_fails) ==
  LET cache_key == CacheKey(show_hidden) IN
  IF CacheHit(c, last, t, cache_key, force)
    THEN [ret |-> c[cache_key], cache |-> c, last |-> last, how |-> "hit"]
  ELSE IF ~walk_fails
    THEN LET stored == CachePut(c, cache_key, Walk(f, show_hidden))
         IN  [ret |-> stored[cache_key], cache |-> stored, last |-> t, how |-> "walk"]
  ELSE WalkFailed(c, last, cache_key)

---------------------------------------------------------------------------
(* Threads: the handlers run on executor threads, so calls of list_all,
   _fire_update and clear_cache may overlap *)

\* calls that overlap in one behaviour
NumThreads == 3

Threads == 1..NumThreads

\* the lock is free
NoThread == 0

\* a thread that has not been given its call yet
IdleThread ==
  [op |-> "none", pc |-> "idle", show_hidden |-> FALSE, force |-> FALSE,
   walk_fails |-> FALSE, seen |-> EmptyCache, res |-> <<>>, ret |-> <<>>, how |-> "none",
   path |-> <<>>, content |-> <<>>, safe |-> <<>>, on_loop |-> FALSE, loop_fs |-> FALSE,
   status |-> 0, read |-> <<>>, wrote |-> <<>>, ver |-> 0, fired |-> FALSE, notified |-> {}]

\* a faulty variant of CanAcquire: the lock does not exclude
CanAcquireAlways(holder) == TRUE

\* threading.Lock.acquire() returns: the lock is free
CanAcquire(holder) == holder = NoThread

\* a faulty variant of WalkHoldsLock: the lock is given back once the cache
\* has been looked at, and the walk and the store run without it
WalkOutsideLock == FALSE

\* the with block of list_all spans the cache test, the walk, the store and
\* the except branch (lines 113-260)
WalkHoldsLock == TRUE

\* no search or replace call is running
\* calls of search and replace that may overlap
NumCalls == 2
PoolCalls == 1..NumCalls

\* a call that has not come in
IdlePool ==
  [call |-> "none", phase |-> "idle", queue |-> <<>>, order |-> <<>>, started |-> 0,
   done |-> <<>>, taken |-> 0, found |-> 0, files_updated |-> 0, occurrences |-> 0]

NoPool == [k \in PoolCalls |-> IdlePool]

\* websocket connections that may subscribe
NumConns == 2
Conns == 1..NumConns

\* no connection has subscribed, and the bus has dispatched nothing
NoWs ==
  [seen |-> 0,
   subs |-> [c \in Conns |-> [on |-> FALSE, id |-> 0, event_type |-> "", since |-> 0]],
   sent |-> [c \in Conns |-> <<>>]]

---------------------------------------------------------------------------
(* Trees and inputs *)

\* longest client path, in segments, drawn for get_safe_path
MaxRawLen == 3

Chr_f == <<"f">>
Chr_r == <<"r">>

\* what lies outside the sandbox: /etc/passwd
Outside ==
  (<<>> :> Dir) @@ (<<n_etc>> :> Dir) @@ (<<n_etc, n_passwd>> :> File(Chr_r))

\* targets a symlink inside the sandbox may have (none passes through a link,
\* so no tree holds a symlink loop)
LinkTargets ==
  { [abs |-> TRUE,  segs |-> <<n_etc>>],
    [abs |-> FALSE, segs |-> <<DOTDOT, n_etc>>],
    [abs |-> FALSE, segs |-> <<n_a>>],
    [abs |-> TRUE,  segs |-> <<n_config, n_a>>],
    [abs |-> FALSE, segs |-> <<DOTDOT>>],
    [abs |-> TRUE,  segs |-> <<n_etc, n_passwd>>] }

\* a sandbox with a directory a and two symlinks, /config/l and /config/a/l
ResolveTree(t1, t2) ==
  Outside @@ (ConfigDir :> Dir) @@ (<<n_config, n_a>> :> Dir)
    @@ (<<n_config, n_l>> :> Link(t1.abs, t1.segs))
    @@ (<<n_config, n_a, n_l>> :> Link(t2.abs, t2.segs))

\* the tree the gateway starts on: /config holds a folder, allowed and
\* disallowed files, a protected file, the hidden state folder, an excluded
\* folder, and two symlinks that leave the sandbox (a folder and a file)
InitTree ==
  Outside @@ (ConfigDir :> Dir)
    @@ (<<n_config, n_a>> :> Dir)
    @@ (<<n_config, n_a, n_b_py>> :> File(<<"f", "f">>))
    @@ (<<n_config, n_secrets>> :> File(Chr_f))
    @@ (<<n_config, n_x_exe>> :> File(Chr_f))
    @@ (<<n_config, n_gitignore>> :> File(Chr_f))
    @@ (<<n_config, n_storage>> :> Dir)
    @@ (<<n_config, n_storage, n_core>> :> File(Chr_f))
    @@ (<<n_config, n_deps>> :> Dir)
    @@ (<<n_config, n_deps, n_b_py>> :> File(Chr_f))
    @@ (<<n_config, n_l>> :> Link(TRUE, <<n_etc>>))
    @@ (<<n_config, n_p_py>> :> Link(TRUE, <<n_etc, n_passwd>>))

RawSegs == {EMPTY, DOT, DOTDOT, n_a, n_l, n_etc, n_config, n_passwd}

SeqsUpTo(S, n) == UNION {[1..k -> S] : k \in 1..n}

RawPaths == SeqsUpTo(RawSegs, MaxRawLen)

\* what a handler answered: the operation, its arguments, the HTTP status, the payload
MkResp(op, path, dest, paths, safe, status, body) ==
  [op |-> op, path |-> path, dest |-> dest, paths |-> paths, safe |-> safe,
   status |-> status, body |-> body]

NoResp == MkResp("none", <<EMPTY>>, <<EMPTY>>, <<>>, {}, 0, NoBody)

---------------------------------------------------------------------------
(* get_safe_path on its own: every tree, every client path *)

\* FileManager.__init__, and nothing has run yet
InitManager ==
  /\ cache = EmptyCache
  /\ lastCacheUpdate = 0
  /\ now = 0
  /\ resp = NoResp
  /\ touched = {}
  /\ events = <<>>
  /\ nOps = 0
  /\ meta = [k \in BOOLEAN |-> [at |-> 0, ver |-> 0, seq |-> <<>>]]
  /\ fsVer = 0
  /\ lastRet = [k \in BOOLEAN |-> [called |-> FALSE, ret |-> <<>>, stored |-> FALSE,
                                    stamp |-> 0, clean |-> FALSE]]
  /\ lock = NoThread
  /\ threads = [t \in Threads |-> IdleThread]
  /\ pool = NoPool
  /\ ws = NoWs

InitResolve ==
  /\ \E t1 \in LinkTargets, t2 \in LinkTargets : fs = ResolveTree(t1, t2)
  /\ InitManager

\* one call per behaviour: the function is pure
CallGetSafePath ==
  \E path \in RawPaths :
    /\ nOps = 0
    /\ nOps' = 1
    /\ resp' = MkResp("get_safe_path", path, <<EMPTY>>, <<>>,
                       get_safe_path(fs, ConfigDir, path), 0, NoBody)
    /\ UNCHANGED <<fs, cache, lastCacheUpdate, now, touched, events, meta, fsVer, lastRet>>
    /\ UNCHANGED conc

NextResolve == CallGetSafePath

SpecResolve == InitResolve /\ [][NextResolve]_vars

\* no component of p is ".", ".." or empty, and no prefix of p is a symlink
Canonical(f, p) ==
  /\ \A i \in 1..Len(p) : p[i] \notin {EMPTY, DOT, DOTDOT}
  /\ \A i \in 1..Len(p) : ~IsLink(f, SubSeq(p, 1, i))

\* C1: get_safe_path returns None or a canonical path that is the sandbox root
\* or a descendant of it, and it returns None for every client path whose
\* resolution (".." applied, symlinks followed) ends outside the root.
C1_ResolveContained ==
  resp.op = "get_safe_path" =>
    /\ Cardinality(resp.safe) <= 1
    /\ \A p \in resp.safe : IsRelativeTo(p, ConfigDir) /\ Canonical(fs, p)
    /\ ~IsRelativeTo(ResolveUnder(fs, ConfigDir, resp.path), ConfigDir) => resp.safe = {}

\* a path that climbs out with ".." and through a symlink has been denied, and
\* one that climbs out and back in has been resolved
C1_Witness ==
  /\ resp.op = "get_safe_path"
  /\ \/ resp.path = <<n_l, DOTDOT, n_etc>> /\ resp.safe = {} /\ fs[<<n_config, n_l>>].target.segs = <<n_a>>
     \/ resp.path = <<DOTDOT, n_config, n_a>> /\ resp.safe = {<<n_config, n_a>>}

---------------------------------------------------------------------------
(* The gateway, one handler at a time *)

\* handlers run in one behaviour
MaxOps == 2

Chr_g == <<"g">>

\* the paths clients send
ClientPaths ==
  { <<n_a, n_b_py>>,                  \* an allowed file
    <<DOTDOT, n_etc, n_passwd>>,      \* out of the sandbox by ".."
    <<n_secrets>>,                    \* a protected file ...
    <<DOT, n_secrets>>,               \* ... and other spellings of it
    <<EMPTY, n_secrets>>,
    <<n_a, DOTDOT, n_secrets>>,
    <<n_l, n_passwd>>,                \* out of the sandbox by a linked folder
    <<n_p_py>>,                       \* out of the sandbox by a linked file
    <<n_x_exe>>,                      \* a file that is not allowed
    <<n_storage, n_core>>,            \* in the state folder
    <<n_storage>>,
    <<n_a, n_storage, n_x_exe>>,      \* below a folder named like the state folder
    <<n_deps, n_b_py>>,               \* in an excluded folder
    <<n_gitignore>>,                  \* a hidden allowed file
    <<n_n_py>>,                       \* a file that does not exist
    <<n_a>> }                         \* a folder

\* sources and destinations of copy and rename
SourcePaths ==
  { <<n_a, n_b_py>>, <<n_secrets>>, <<DOT, n_secrets>>, <<DOTDOT, n_etc, n_passwd>>,
    <<n_p_py>>, <<n_a>>, <<n_storage, n_core>> }
DestPaths ==
  { <<n_n_py>>, <<n_a, n_b_py>>, <<DOTDOT, n_etc, n_n_py>>, <<n_deps, n_n_py>> }

\* the path lists of delete_multi and move_multi
PathLists ==
  { <<>>, << <<n_a, n_b_py>> >>, << <<n_secrets>>, <<n_x_exe>> >>,
    << <<DOT, n_secrets>>, <<DOTDOT, n_etc, n_passwd>> >>, << <<n_a>>, <<n_gitignore>> >> }

\* destinations of move_multi ("" is the root)
MoveDests == { <<EMPTY>>, <<n_a>>, <<n_l>>, <<n_n>> }

\* the archives clients upload
Member(name, c) == [name |-> name, content |-> c]
ZipArchives ==
  { [valid |-> FALSE, members |-> <<>>],
    [valid |-> TRUE,  members |-> <<Member(<<n_n_py>>, Chr_g), Member(<<n_x_exe>>, Chr_g)>>],
    [valid |-> TRUE,  members |-> <<Member(<<n_n_py>>, Chr_g), Member(<<n_storage>>, Chr_g)>>],
    [valid |-> TRUE,  members |-> <<Member(<<n_p_py>>, Chr_g), Member(<<n_l, n_n_py>>, Chr_g)>>] }

UploadFolderPaths == { <<EMPTY>>, <<n_n>>, <<DOTDOT, n_etc>> }

\* the literal queries of global_replace
Queries == { <<"f">>, <<"R">> }

Init ==
  /\ fs = InitTree
  /\ InitManager

\* the events the _fire_update calls "fire" of one handler put on the bus at time t
FiredAt(fire, t) ==
  [i \in 1..Len(fire) |->
     [action |-> fire[i].action, path |-> fire[i].path, timestamp |-> t]]

\* a handler has run and answered r: every _fire_update it made has emptied
\* the cache and fired its event
Handle(op, path, dest, paths, result) ==
  \E r \in {result} :
  /\ nOps' = nOps + 1
  /\ fs' = r.fs
  /\ cache' = IF r.fire # <<>> THEN fire_update(cache) ELSE cache
  /\ events' = events \o FiredAt(r.fire, now)
  /\ touched' = r.touched
  /\ resp' = MkResp(op, path, dest, paths, {}, r.status, r.body)
  /\ fsVer' = IF r.fs # fs THEN fsVer + 1 ELSE fsVer
  /\ lastRet' = IF r.fs # fs \/ r.fire # <<>>
                  THEN [k \in BOOLEAN |-> [lastRet[k] EXCEPT !.clean = FALSE]]
                  ELSE lastRet
  /\ UNCHANGED <<lastCacheUpdate, now, meta>>
  /\ UNCHANGED conc

Apply(op, path, dest, paths, r) ==
  /\ nOps < MaxOps
  /\ Handle(op, path, dest, paths, r)

ReadFile == \E path \in ClientPaths :
  Apply("read_file", path, <<EMPTY>>, <<>>, read_file(fs, path))

GetFileStat == \E path \in ClientPaths :
  Apply("get_file_stat", path, <<EMPTY>>, <<>>, get_file_stat(fs, path))

WriteFile == \E path \in ClientPaths :
  Apply("write_file", path, <<EMPTY>>, <<>>, write_file(fs, path, Chr_g))

CreateFile == \E path \in ClientPaths :
  Apply("create_file", path, <<EMPTY>>, <<>>, create_file(fs, path, Chr_g))

CreateFolder == \E path \in ClientPaths :
  Apply("create_folder", path, <<EMPTY>>, <<>>, create_folder(fs, path))

Delete == \E path \in ClientPaths :
  Apply("delete", path, <<EMPTY>>, <<>>, delete(fs, path))

DeleteMulti == \E paths \in PathLists :
  Apply("delete_multi", <<EMPTY>>, <<EMPTY>>, paths, delete_multi(fs, paths))

MoveMulti == \E paths \in PathLists, destination \in MoveDests :
  Apply("move_multi", <<EMPTY>>, destination, paths, move_multi(fs, paths, destination))

Copy == \E source \in SourcePaths, destination \in DestPaths :
  Apply("copy", source, destination, <<>>, copy(fs, source, destination))

Rename == \E source \in SourcePaths, destination \in DestPaths :
  Apply("rename", source, destination, <<>>, rename(fs, source, destination))

DownloadFolder == \E path \in ClientPaths \cup {<<DOT>>} :
  Apply("download_folder", path, <<EMPTY>>, <<>>, download_folder(fs, path))

UploadFile == \E path \in ClientPaths, overwrite \in BOOLEAN :
  Apply("upload_file", path, <<EMPTY>>, <<>>, upload_file(fs, path, Chr_g, overwrite))

UploadFolder == \E path \in UploadFolderPaths, zip \in ZipArchives :
  Apply("upload_folder", path, <<EMPTY>>, <<>>, upload_folder(fs, path, zip))

GlobalReplace ==
  \E query \in Queries, case_sensitive \in BOOLEAN, match_word \in BOOLEAN,
     order \in Orders(ReplaceTargets(fs)) :
    Apply("global_replace", query, <<EMPTY>>, <<>>,
          global_replace(fs, order, query, <<"g", "g">>, case_sensitive, match_word))

\* one call of list_all has run
ListAllCall(show_hidden, force, walk_fails) ==
  \E r \in {list_all(cache, lastCacheUpdate, now, fs, show_hidden, force, walk_fails)} :
  /\ nOps' = nOps + 1
  /\ cache' = r.cache
  /\ lastCacheUpdate' = r.last
  /\ touched' = IF r.how = "walk" THEN {St(q) : q \in WalkStats(fs, show_hidden, r.ret)} ELSE {}
  /\ resp' = MkResp("list_all", <<EMPTY>>, <<EMPTY>>, <<>>, {}, 200,
                    [ret |-> r.ret, how |-> r.how, show_hidden |-> show_hidden, force |-> force,
                     time |-> now])
  /\ meta' = IF r.how = "walk"
               THEN [meta EXCEPT ![CacheKey(show_hidden)] = [at |-> now, ver |-> fsVer, seq |-> r.ret]]
               ELSE meta
  /\ lastRet' = [lastRet EXCEPT ![show_hidden] =
                   [called |-> TRUE, ret |-> r.ret, stored |-> r.how # "empty",
                    stamp |-> r.last, clean |-> TRUE]]
  /\ UNCHANGED <<fs, now, events, fsVer>>
  /\ UNCHANGED conc

ListAll ==
  \E show_hidden \in BOOLEAN, force \in BOOLEAN, walk_fails \in BOOLEAN :
    nOps < MaxOps /\ ListAllCall(show_hidden, force, walk_fails)

Next ==
  \/ ReadFile \/ GetFileStat \/ WriteFile \/ CreateFile \/ CreateFolder
  \/ Delete \/ DeleteMulti \/ MoveMulti \/ Copy \/ Rename
  \/ DownloadFolder \/ UploadFile \/ UploadFolder \/ GlobalReplace \/ ListAll

Spec == Init /\ [][Next]_vars

---------------------------------------------------------------------------
(* The directory cache over time *)

\* handlers run in one behaviour of the cache
MaxCacheOps == 3
\* the clock advances in steps of TickStep seconds up to MaxNow
TickStep == 10
MaxNow == 40

\* the archive whose second member cannot be extracted over the .storage folder
HalfBadZip ==
  [valid |-> TRUE, members |-> <<Member(<<n_n_py>>, Chr_g), Member(<<n_storage>>, Chr_g)>>]

Tick ==
  /\ now < MaxNow
  /\ now' = now + TickStep
  /\ UNCHANGED <<fs, cache, lastCacheUpdate, resp, touched, events, nOps, meta, fsVer, lastRet>>
  /\ UNCHANGED conc

\* something other than the gateway changes the tree
ExternalChange ==
  /\ nOps < MaxCacheOps
  /\ nOps' = nOps + 1
  /\ \/ fs' = WriteFs(fs, <<n_config, n_a, n_n_py>>, Chr_g)
     \/ <<n_config, n_a, n_b_py>> \in DOMAIN fs /\ fs' = RemoveFs(fs, <<n_config, n_a, n_b_py>>)
  /\ resp' = NoResp
  /\ touched' = {}
  /\ UNCHANGED <<cache, lastCacheUpdate, now, events, meta, fsVer, lastRet>>
  /\ UNCHANGED conc

CacheListAll ==
  \E show_hidden \in BOOLEAN, force \in BOOLEAN, walk_fails \in BOOLEAN :
    nOps < MaxCacheOps /\ ListAllCall(show_hidden, force, walk_fails)

CacheWriteFile ==
  /\ nOps < MaxCacheOps
  /\ Handle("write_file", <<n_n_py>>, <<EMPTY>>, <<>>, write_file(fs, <<n_n_py>>, Chr_g))

CacheUploadFolder ==
  /\ nOps < MaxCacheOps
  /\ Handle("upload_folder", <<EMPTY>>, <<EMPTY>>, <<>>, upload_folder(fs, <<EMPTY>>, HalfBadZip))

\* api.py after a git pull, init or hard reset: FileManager.clear_cache
ClearCache ==
  /\ nOps < MaxCacheOps
  /\ nOps' = nOps + 1
  /\ cache' = clear_cache(cache).cache
  /\ lastCacheUpdate' = clear_cache(cache).last
  /\ resp' = MkResp("clear_cache", <<EMPTY>>, <<EMPTY>>, <<>>, {}, 200, NoBody)
  /\ touched' = {}
  /\ lastRet' = [k \in BOOLEAN |-> [lastRet[k] EXCEPT !.clean = FALSE]]
  /\ UNCHANGED <<fs, now, events, meta, fsVer>>
  /\ UNCHANGED conc

NextCache ==
  \/ Tick \/ ExternalChange \/ CacheListAll \/ CacheWriteFile \/ CacheUploadFolder \/ ClearCache

SpecCache == Init /\ [][NextCache]_vars

---------------------------------------------------------------------------
(* The cache lock: calls of list_all, _fire_update and clear_cache that
   overlap, each a sequence of steps of its thread *)

\* the calls a thread may be given
Calls ==
  {[op |-> "list_all", show_hidden |-> h, force |-> g, walk_fails |-> w] :
     h \in BOOLEAN, g \in BOOLEAN, w \in BOOLEAN}
    \cup {[op |-> o, show_hidden |-> FALSE, force |-> FALSE, walk_fails |-> FALSE] :
            o \in {"fire_update", "clear_cache"}}

\* the thread t moves on as "next" says, nothing else of the threads changes
Step(t, next) == threads' = [threads EXCEPT ![t] = next]

\* a faulty variant of Release: the lock is kept on the way out
ReleaseNot(t) == lock

\* leaving the with block
Release(t) == IF lock = t THEN NoThread ELSE lock

\* the executor starts the call on thread t, which comes to "with self._cache_lock"
Call(t) ==
  \E c \in Calls :
    /\ threads[t].pc = "idle"
    /\ Step(t, [IdleThread EXCEPT !.op = c.op, !.pc = "lock", !.show_hidden = c.show_hidden,
                                  !.force = c.force, !.walk_fails = c.walk_fails])
    /\ UNCHANGED <<fs, cache, lastCacheUpdate, now, resp, touched, events, nOps, meta, fsVer,
                   lastRet, lock, pool, ws>>

\* __enter__ of the lock
Acquire(t) ==
  /\ threads[t].pc = "lock"
  /\ CanAcquire(lock)
  /\ lock' = t
  /\ Step(t, [threads[t] EXCEPT !.pc = IF threads[t].op = "list_all" THEN "check" ELSE "clear",
                                !.seen = cache])
  /\ UNCHANGED <<fs, cache, lastCacheUpdate, now, resp, touched, events, nOps, meta, fsVer,
                 lastRet, pool, ws>>

\* list_all, line 134: a hit returns the cached sequence and leaves the block
Check(t) ==
  /\ threads[t].pc = "check"
  /\ LET key == CacheKey(threads[t].show_hidden)
     IN  IF CacheHit(cache, lastCacheUpdate, now, key, threads[t].force)
           THEN /\ Step(t, [threads[t] EXCEPT !.pc = "done", !.ret = cache[key], !.how = "hit"])
                /\ lock' = Release(t)
           ELSE /\ Step(t, [threads[t] EXCEPT !.pc = "walk"])
                /\ lock' = IF WalkHoldsLock THEN lock ELSE Release(t)
  /\ UNCHANGED <<fs, cache, lastCacheUpdate, now, resp, touched, events, nOps, meta, fsVer,
                 lastRet, pool, ws>>

\* list_all, lines 140-231: the walk collects res, or raises
Scan(t) ==
  /\ threads[t].pc = "walk"
  /\ IF threads[t].walk_fails
       THEN Step(t, [threads[t] EXCEPT !.pc = "except"])
       ELSE \E res \in {Walk(fs, threads[t].show_hidden)} :
              Step(t, [threads[t] EXCEPT !.pc = "store", !.res = res])
  /\ UNCHANGED <<fs, cache, lastCacheUpdate, now, resp, touched, events, nOps, meta, fsVer,
                 lastRet, lock, pool, ws>>

\* list_all, lines 233-237: store, stamp, return, and leave the block
Store(t) ==
  /\ threads[t].pc = "store"
  /\ cache' = CachePut(cache, CacheKey(threads[t].show_hidden), threads[t].res)
  /\ lastCacheUpdate' = now
  /\ Step(t, [threads[t] EXCEPT !.pc = "done", !.ret = threads[t].res, !.how = "walk"])
  /\ lock' = Release(t)
  /\ UNCHANGED <<fs, now, resp, touched, events, nOps, meta, fsVer, lastRet, pool, ws>>

\* list_all, lines 238-260: the except branch
Except(t) ==
  /\ threads[t].pc = "except"
  /\ \E r \in {WalkFailed(cache, lastCacheUpdate, CacheKey(threads[t].show_hidden))} :
       Step(t, [threads[t] EXCEPT !.pc = "done", !.ret = r.ret, !.how = r.how])
  /\ lock' = Release(t)
  /\ UNCHANGED <<fs, cache, lastCacheUpdate, now, resp, touched, events, nOps, meta, fsVer,
                 lastRet, pool, ws>>

\* the with block of _fire_update and of clear_cache
Clear(t) ==
  /\ threads[t].pc = "clear"
  /\ IF threads[t].op = "fire_update"
       THEN /\ cache' = fire_update(cache)
            /\ lastCacheUpdate' = lastCacheUpdate
            /\ Step(t, [threads[t] EXCEPT !.pc = "fire"])
       ELSE /\ cache' = clear_cache(cache).cache
            /\ lastCacheUpdate' = clear_cache(cache).last
            /\ Step(t, [threads[t] EXCEPT !.pc = "done"])
  /\ lock' = Release(t)
  /\ UNCHANGED <<fs, now, resp, touched, events, nOps, meta, fsVer, lastRet, pool, ws>>

\* _fire_update, lines 82-87: the event is fired after the lock is given back
Fire(t) ==
  /\ threads[t].pc = "fire"
  /\ events' = events \o FiredAt(<<Ev("write", <<n_n_py>>)>>, now)
  /\ Step(t, [threads[t] EXCEPT !.pc = "done"])
  /\ UNCHANGED <<fs, cache, lastCacheUpdate, now, resp, touched, nOps, meta, fsVer, lastRet,
                 lock, pool, ws>>

NextLock ==
  \E t \in Threads :
    \/ Call(t) \/ Acquire(t) \/ Check(t) \/ Scan(t) \/ Store(t) \/ Except(t)
    \/ Clear(t) \/ Fire(t)

SpecLock == Init /\ [][NextLock]_vars

\* the steps of thread t that take no walk
QuickStep(t) == Acquire(t) \/ Check(t) \/ Store(t) \/ Except(t) \/ Clear(t) \/ Fire(t)

\* weak fairness of the walks, with ENABLED <<Scan(t)>>_vars written out: a
\* walk that has started comes to its end
WalkEnds ==
  \/ []<>(\A t \in Threads : threads[t].pc # "walk")
  \/ []<><<\E t \in Threads : Scan(t)>>_vars

\* the operating system does not stop while some thread can go on
SpecLockFair == SpecLock /\ WF_vars(\E t \in Threads : QuickStep(t)) /\ WalkEnds

---------------------------------------------------------------------------
(* The event loop: the async handlers run on the one event-loop thread and
   hand their jobs to executor threads with async_add_executor_job; list_all
   and global_replace run on executor threads as a whole (api.py 63, 288) *)

\* the file two create_file calls race for, and the file replace and write_file meet on
AsyncNew == <<n_n_py>>
AsyncOld == <<n_a, n_b_py>>
AsyncContents == { <<"f">>, <<"f", "R", "f">> }
AsyncQuery == <<"f">>
AsyncReplacement == <<"R", "R">>

\* the requests a client may send
AsyncCalls ==
  {[op |-> "list_all", path |-> <<>>, content |-> <<>>, walk_fails |-> w] : w \in BOOLEAN}
    \cup {[op |-> "create_file", path |-> AsyncNew, content |-> c, walk_fails |-> FALSE] :
            c \in AsyncContents}
    \cup {[op |-> "write_file", path |-> p, content |-> c, walk_fails |-> FALSE] :
            p \in {AsyncNew, AsyncOld}, c \in AsyncContents}
    \cup {[op |-> "global_replace", path |-> AsyncOld, content |-> <<>>, walk_fails |-> FALSE]}

\* the event-loop thread is inside _fire_update for request t
InFireOnLoop(t) ==
  threads[t].on_loop /\ threads[t].pc \in {"fire_lock", "fire_clear", "fire_event"}

\* the event-loop thread is free to run a handler up to its next await
LoopFree == \A t \in Threads : ~InFireOnLoop(t)

\* the requests whose change notification is on the bus
Notified == {t \in Threads : threads[t].fired}

\* a faulty variant of ClearsBeforeFire: the event is fired first
FiresBeforeClear == FALSE

\* _fire_update, lines 78-87: the cache is emptied, then the event is fired
ClearsBeforeFire == TRUE

\* where _fire_update starts, and what follows each of its two halves
FireStart == IF ClearsBeforeFire THEN "fire_lock" ELSE "fire_event"
AfterClear == IF ClearsBeforeFire THEN "fire_event" ELSE "done"
AfterFire == IF ClearsBeforeFire THEN "done" ELSE "fire_lock"

\* the handler of request t starts on the event loop and runs to its first
\* await: get_safe_path, _is_file_allowed and exists() are called there
AsyncCall(t) ==
  /\ threads[t].pc = "idle"
  /\ LoopFree
  /\ \E c \in AsyncCalls :
       LET req == [IdleThread EXCEPT !.op = c.op, !.path = c.path, !.content = c.content,
                                      !.walk_fails = c.walk_fails, !.notified = Notified]
           safe == get_safe_path(fs, root_dir, c.path)
       IN  IF c.op = "list_all" THEN Step(t, [req EXCEPT !.pc = "lock"])
           ELSE IF c.op = "global_replace"
             THEN Step(t, [req EXCEPT !.pc = "r_read", !.safe = root_dir \o c.path])
           ELSE IF safe = {} \/ \E sp \in safe : ~is_file_allowed(sp)
             THEN Step(t, [req EXCEPT !.pc = "done", !.status = 403, !.loop_fs = TRUE])
           ELSE IF c.op = "create_file" /\ \E sp \in safe : Exists(fs, sp)
             THEN Step(t, [req EXCEPT !.pc = "done", !.status = 409, !.loop_fs = TRUE])
           ELSE Step(t, [req EXCEPT !.pc = "job", !.safe = CHOOSE sp \in safe : TRUE,
                                    !.loop_fs = TRUE])
  /\ UNCHANGED <<fs, cache, lastCacheUpdate, now, resp, touched, events, nOps, meta, fsVer,
                 lastRet, lock, pool, ws>>

\* the executor runs safe_path.write_text(content)
WriteJob(t) ==
  /\ threads[t].pc = "job"
  /\ IF WriteOk(fs, threads[t].safe)
       THEN /\ fs' = WriteFs(fs, threads[t].safe, threads[t].content)
            /\ fsVer' = fsVer + 1
            /\ Step(t, [threads[t] EXCEPT !.pc = "resume", !.ver = fsVer + 1,
                                          !.wrote = threads[t].content])
       ELSE /\ Step(t, [threads[t] EXCEPT !.pc = "done", !.status = 500])
            /\ UNCHANGED <<fs, fsVer>>
  /\ UNCHANGED <<cache, lastCacheUpdate, now, resp, touched, events, nOps, meta, lastRet,
                 lock, pool, ws>>

\* the handler goes on after its await, on the event loop, and calls _fire_update
Resume(t) ==
  /\ threads[t].pc = "resume"
  /\ LoopFree
  /\ Step(t, [threads[t] EXCEPT !.pc = FireStart, !.on_loop = TRUE])
  /\ UNCHANGED <<fs, cache, lastCacheUpdate, now, resp, touched, events, nOps, meta, fsVer,
                 lastRet, lock, pool, ws>>

\* replace_single_file: f_path.read_text
ReplaceRead(t) ==
  /\ threads[t].pc = "r_read"
  /\ IF IsFile(fs, threads[t].safe)
       THEN Step(t, [threads[t] EXCEPT !.pc = "r_write",
                                       !.read = fs[Real(fs, threads[t].safe)].content])
       ELSE Step(t, [threads[t] EXCEPT !.pc = "done", !.status = 200])
  /\ UNCHANGED <<fs, cache, lastCacheUpdate, now, resp, touched, events, nOps, meta, fsVer,
                 lastRet, lock, pool, ws>>

\* replace_single_file: pattern.subn and, for a count above 0, f_path.write_text;
\* global_replace then calls _fire_update on its executor thread
ReplaceWrite(t) ==
  /\ threads[t].pc = "r_write"
  /\ \E r \in {SubnFrom(threads[t].read, 1, AsyncQuery, ParseTemplate(AsyncReplacement, 1).out,
                        TRUE, FALSE)} :
       IF WritesBack(r.count) /\ WriteOk(fs, Real(fs, threads[t].safe))
         THEN /\ fs' = WriteFs(fs, Real(fs, threads[t].safe), r.out)
              /\ fsVer' = fsVer + 1
              /\ Step(t, [threads[t] EXCEPT !.pc = FireStart, !.ver = fsVer + 1,
                                            !.wrote = r.out])
         ELSE /\ Step(t, [threads[t] EXCEPT !.pc = "done", !.status = 200])
              /\ UNCHANGED <<fs, fsVer>>
  /\ UNCHANGED <<cache, lastCacheUpdate, now, resp, touched, events, nOps, meta, lastRet,
                 lock, pool, ws>>

\* _fire_update, line 78: the lock is taken; the thread waits while it is held
FireAcquire(t) ==
  /\ threads[t].pc = "fire_lock"
  /\ CanAcquire(lock)
  /\ lock' = t
  /\ Step(t, [threads[t] EXCEPT !.pc = "fire_clear"])
  /\ UNCHANGED <<fs, cache, lastCacheUpdate, now, resp, touched, events, nOps, meta, fsVer,
                 lastRet, pool, ws>>

\* _fire_update, lines 79-80: the cache is emptied and the lock given back
FireClear(t) ==
  /\ threads[t].pc = "fire_clear"
  /\ cache' = fire_update(cache)
  /\ lock' = Release(t)
  /\ Step(t, [threads[t] EXCEPT !.pc = AfterClear,
                                !.on_loop = threads[t].on_loop /\ AfterClear # "done",
                                !.status = IF AfterClear = "done" THEN 200 ELSE @])
  /\ UNCHANGED <<fs, lastCacheUpdate, now, resp, touched, events, nOps, meta, fsVer, lastRet,
                 pool, ws>>

\* _fire_update, lines 82-87: the event is put on the bus; the handler then
\* answers (write_file after safe_path.stat(), line 603)
FireEvent(t) ==
  /\ threads[t].pc = "fire_event"
  /\ events' = events \o FiredAt(<<Ev(IF threads[t].op = "create_file" THEN "create" ELSE "write",
                                      threads[t].path)>>, now)
  /\ Step(t, [threads[t] EXCEPT !.pc = AfterFire, !.fired = TRUE,
                                !.on_loop = threads[t].on_loop /\ AfterFire # "done",
                                !.status = IF AfterFire = "done" THEN 200 ELSE @])
  /\ UNCHANGED <<fs, cache, lastCacheUpdate, now, resp, touched, nOps, meta, fsVer, lastRet,
                 lock, pool, ws>>

NextAsync ==
  \E t \in Threads :
    \/ AsyncCall(t) \/ WriteJob(t) \/ Resume(t) \/ ReplaceRead(t) \/ ReplaceWrite(t)
    \/ FireAcquire(t) \/ FireClear(t) \/ FireEvent(t)
    \/ Acquire(t) \/ Check(t) \/ Scan(t) \/ Store(t) \/ Except(t)

SpecAsync == Init /\ [][NextAsync]_vars

---------------------------------------------------------------------------
(* Searches over trees of text files *)

\* searches run in one behaviour
MaxSearches == 1

\* files of the large tree, and lines of each of them
ManyFiles == 20
ManyLines == 101

\* completion orders drawn besides the ascending and the descending one
MaxRotations == 2

RECURSIVE Repeat(_, _)
Repeat(s, n) == IF n = 0 THEN <<>> ELSE s \o Repeat(s, n - 1)

\* a tree of text: lines that match, lines that do not, a word and a part of a
\* word, a protected file and a symlink to it, a hidden file, and files in
\* pruned folders
TextTree ==
  Outside @@ (ConfigDir :> Dir)
    @@ (<<n_config, n_a>> :> Dir)
    @@ (<<n_config, n_a, n_b_py>> :> File(<<"f", "f", "\n", " ", "f", "\n", "r">>))
    @@ (<<n_config, n_a, n_n_py>> :> File(<<"R", "\n", "F", " ", "f", "\n">>))
    @@ (<<n_config, n_secrets>> :> File(Chr_f))
    @@ (<<n_config, n_n_py>> :> Link(FALSE, <<n_secrets>>))
    @@ (<<n_config, n_x_exe>> :> File(Chr_f))
    @@ (<<n_config, n_gitignore>> :> File(Chr_f))
    @@ (<<n_config, n_storage>> :> Dir)
    @@ (<<n_config, n_storage, n_core>> :> File(Chr_f))
    @@ (<<n_config, n_deps>> :> Dir)
    @@ (<<n_config, n_deps, n_b_py>> :> File(Chr_f))

\* a tree of ManyFiles files of ManyLines matching lines each
LargeTree ==
  Outside @@ (ConfigDir :> Dir)
    @@ [p \in {<<n_config, <<LowerChars[i], ".", "p", "y">>>> : i \in 1..ManyFiles}
          |-> File(Repeat(<<"f", "\n">>, ManyLines))]

\* s[k:] + s[:k]
Rotate(s, k) == SubSeq(s, k + 1, Len(s)) \o SubSeq(s, 1, k)

Reverse(s) == [i \in 1..Len(s) |-> s[Len(s) + 1 - i]]

\* orders in which the workers of a set of files complete
CompletionOrders(S) ==
  LET asc == SortedNames({JoinSlash(c) : c \in S})
      byName == [i \in 1..Len(asc) |-> CHOOSE c \in S : JoinSlash(c) = asc[i]]
  IN  {byName, Reverse(byName)} \cup
      {Rotate(byName, k) : k \in {k \in 1..MaxRotations : k < Len(byName)}}

\* the literal queries of global_search
SearchQueries == { <<"f">>, <<"R">>, <<"f", "f">>, <<" ", "f">>, <<>> }

InitSearch ==
  /\ fs \in {InitTree, TextTree, LargeTree}
  /\ InitManager

\* the answer with the flags of the call next to its payload
WithFlags(r, case_sensitive, match_word) ==
  [r EXCEPT !.body = [out |-> r.body, case_sensitive |-> case_sensitive,
                      match_word |-> match_word]]

GlobalSearch ==
  \E query \in SearchQueries, case_sensitive \in BOOLEAN, match_word \in BOOLEAN,
     order \in CompletionOrders(SearchTargets(fs)) :
    /\ nOps < MaxSearches
    /\ Handle("global_search", query, <<EMPTY>>, order,
              WithFlags(global_search(fs, order, query, case_sensitive, match_word),
                        case_sensitive, match_word))

NextSearch == GlobalSearch

SpecSearch == InitSearch /\ [][NextSearch]_vars

---------------------------------------------------------------------------
(* Replacements over trees of text files *)

\* replacements run in one behaviour, each followed by at most one read
MaxReplaces == 1

\* the replacement templates of global_replace
Replacements == { <<"g", "g">>, <<"f", "f">>, <<"\\">>, <<"\\", "n">>, <<"\\", "\\">> }

InitText ==
  /\ fs \in {InitTree, TextTree}
  /\ InitManager

TextReplace ==
  \E query \in Queries, replacement \in Replacements,
     case_sensitive \in BOOLEAN, match_word \in BOOLEAN,
     order \in CompletionOrders(ReplaceTargets(fs)) :
    /\ nOps < MaxReplaces
    /\ Handle("global_replace", query, replacement, order,
              WithFlags(global_replace(fs, order, query, replacement, case_sensitive, match_word),
                        case_sensitive, match_word))

\* a read after the replacements
TextRead ==
  \E path \in ClientPaths \cup {<<n_a, n_n_py>>} :
    /\ 0 < nOps /\ nOps <= MaxReplaces
    /\ Handle("read_file", path, <<EMPTY>>, <<>>, read_file(fs, path))

NextText == TextReplace \/ TextRead

SpecText == InitText /\ [][NextText]_vars

---------------------------------------------------------------------------
(* Whole calls of search and replace: null and malformed queries, regular
   expressions, include and exclude globs, files that cannot be read *)

\* calls run in one behaviour
MaxQueryOps == 1

\* a tree of text with characters that are special in a regular expression, the
\* word None, a symlink whose target is missing, a hidden allowed file, a
\* protected file, a file outside the allow list and a file in an excluded folder
QueryTree ==
  Outside @@ (ConfigDir :> Dir)
    @@ (<<n_config, n_a>> :> Dir)
    @@ (<<n_config, n_a, n_b_py>> :> File(<<"f", ".", "\n", "(", "f", "\n", "r">>))
    @@ (<<n_config, n_a, n_n_py>> :> File(<<"N", "o", "n", "e", "\n", "F", " ", "f", "\n">>))
    @@ (<<n_config, n_a, n_p_py>> :> Link(FALSE, <<n_l>>))
    @@ (<<n_config, n_n_py>> :> File(Chr_f))
    @@ (<<n_config, n_secrets>> :> File(Chr_f))
    @@ (<<n_config, n_x_exe>> :> File(Chr_f))
    @@ (<<n_config, n_gitignore>> :> File(Chr_f))
    @@ (<<n_config, n_deps>> :> Dir)
    @@ (<<n_config, n_deps, n_b_py>> :> File(Chr_f))

\* the queries: a letter, an expression that matches any character, an
\* expression that does not compile, and no query at all
CallQueries ==
  { Query(<<"f">>), Query(<<".">>), Query(<<"f", "(">>), NullQuery }

\* the include lists: none, one glob on the name, a glob on the path between
\* blank items, a glob on the first letter
IncludeLists ==
  { <<>>, <<"*", ".", "p", "y">>, <<" ", ",", "a", "/", "*", ",", " ">>, <<"n", "*">> }

\* the exclude lists: none, one name, every path under a, blank items alone
ExcludeLists ==
  { <<>>, n_b_py, <<"a", "/", "*">>, <<" ", ",">> }

CallReplacements == { <<"g", "g">>, <<"\\">> }

InitQuery ==
  /\ fs \in {TextTree, QueryTree}
  /\ InitManager

\* the answer with the arguments of the call next to its payload
WithCall(r, query, replacement, case_sensitive, use_regex, match_word, include, exclude) ==
  [r EXCEPT !.body = [out |-> r.body, query |-> query, replacement |-> replacement,
                      case_sensitive |-> case_sensitive, use_regex |-> use_regex,
                      match_word |-> match_word, include |-> include, exclude |-> exclude]]

SearchCall ==
  \E query \in CallQueries, case_sensitive \in BOOLEAN, use_regex \in BOOLEAN,
     match_word \in BOOLEAN, include \in IncludeLists, exclude \in ExcludeLists,
     order \in CompletionOrders(SearchTargets(fs)) :
    /\ nOps < MaxQueryOps
    /\ Handle("search", <<EMPTY>>, <<EMPTY>>, order,
              WithCall(global_search_call(fs, order, query, case_sensitive, use_regex,
                                          match_word, include, exclude),
                       query, <<>>, case_sensitive, use_regex, match_word, include, exclude))

ReplaceCall ==
  \E query \in CallQueries, replacement \in CallReplacements, case_sensitive \in BOOLEAN,
     use_regex \in BOOLEAN, match_word \in BOOLEAN,
     include \in IncludeLists, exclude \in ExcludeLists,
     order \in CompletionOrders(ReplaceTargets(fs)) :
    /\ nOps < MaxQueryOps
    /\ Handle("replace", <<EMPTY>>, <<EMPTY>>, order,
              WithCall(global_replace_call(fs, order, query, replacement, case_sensitive,
                                           use_regex, match_word, include, exclude),
                       query, replacement, case_sensitive, use_regex, match_word,
                       include, exclude))

NextQuery == SearchCall \/ ReplaceCall

SpecQuery == InitQuery /\ [][NextQuery]_vars

---------------------------------------------------------------------------
(* The worker pool of global_search and global_replace: each call, its
   workers and its as_completed loop as steps of their own *)

\* files of the tree the pool works on
PoolFiles == 21

\* results the as_completed loop may be behind the workers
MaxUnconsumed == 1

\* ThreadPoolExecutor(max_workers=10)
max_workers == 10

\* files of the tree of short files
FewPoolFiles == 12

\* a tree of FewPoolFiles files of one matching line each
ShortTree ==
  Outside @@ (ConfigDir :> Dir)
    @@ [p \in {<<n_config, <<LowerChars[i], ".", "p", "y">>>> : i \in 1..FewPoolFiles}
          |-> File(<<"f", "\n">>)]

\* a tree of PoolFiles files of ManyLines matching lines each
PoolTree ==
  Outside @@ (ConfigDir :> Dir)
    @@ [p \in {<<n_config, <<LowerChars[i], ".", "p", "y">>>> : i \in 1..PoolFiles}
          |-> File(Repeat(<<"f", "\n">>, ManyLines))]

\* the arguments of the calls: the pattern is the literal f, any case
PoolQuery == <<"f">>
PoolReplacement == <<"g">>

\* include="a.py,b.py"
FewFiles == <<"a", ".", "p", "y", ",", "b", ".", "p", "y">>

\* the first call goes over the whole tree, a call that overlaps it names two files
PoolIncludes(k) == IF k = 1 THEN {<<>>} ELSE {FewFiles}

\* replace is followed on the short files, search on the long ones
PoolOps(k, f) == IF k = 1 /\ f = ShortTree THEN {"replace"} ELSE {"search"}

\* the order in which the collecting loop meets the members of S, which is
\* the order of the submit calls and so of the work queue
SubmitOrder(S) ==
  LET asc == SortedNames({JoinSlash(c) : c \in S})
  IN  [i \in 1..Len(asc) |-> CHOOSE c \in S : JoinSlash(c) = asc[i]]

Position(seq, x) == CHOOSE i \in 1..Len(seq) : seq[i] = x

\* a faulty variant of WorkerFree: the executor starts a thread for every item
WorkerFreeAlways(running) == TRUE

\* the executor has a thread for the next item of its queue
WorkerFree(running) == running < max_workers

\* completion orders a pool of max_workers threads can produce: the i-th
\* worker to complete was started while at most i - 1 had completed
PoolOrders(S) ==
  LET queue == SubmitOrder(S)
  IN  {o \in CompletionOrders(S) :
         \A i \in 1..Len(o) : Position(queue, o[i]) <= i - 1 + max_workers}

\* workers of the call that are executing
Running(p) == p.started - Len(p.done)

\* the call k comes in, builds its candidate list and submits every candidate
\* to an executor of its own; with no candidate the loop has nothing to wait for
PoolCall(k) ==
  /\ pool[k].phase = "idle"
  /\ \E op \in PoolOps(k, fs), include \in PoolIncludes(k) :
    \E order \in PoolOrders(IF op = "search" THEN search_files(fs, include, <<>>)
                            ELSE target_files(fs, include, <<>>)) :
      /\ pool' = [pool EXCEPT ![k] =
                    [IdlePool EXCEPT !.call = op,
                                     !.phase = IF order = <<>> THEN "exit" ELSE "loop",
                                     !.queue = SubmitOrder(Range(order)),
                                     !.order = order]]
      /\ UNCHANGED <<fs, cache, lastCacheUpdate, now, resp, touched, events, nOps, meta, fsVer,
                     lastRet, lock, threads, ws>>

\* a thread of the executor of call k takes the next item of the work queue;
\* the queue is served until it is empty, also after the loop was left
StartWorker(k) ==
  /\ pool[k].phase \in {"loop", "exit"}
  /\ pool[k].started < Len(pool[k].queue)
  /\ WorkerFree(Running(pool[k]))
  /\ pool' = [pool EXCEPT ![k].started = @ + 1]
  /\ UNCHANGED <<fs, cache, lastCacheUpdate, now, resp, touched, events, nOps, meta, fsVer,
                 lastRet, lock, threads, ws>>

\* the next worker of call k to complete runs search_single_file or
\* replace_single_file on its file and sets its future
Finish(k) ==
  /\ pool[k].phase \in {"loop", "exit"}
  /\ Len(pool[k].done) < Len(pool[k].order)
  /\ Position(pool[k].queue, pool[k].order[Len(pool[k].done) + 1]) <= pool[k].started
  /\ pool[k].phase = "loop" => Len(pool[k].done) - pool[k].taken < MaxUnconsumed
  /\ LET c == pool[k].order[Len(pool[k].done) + 1]
         r_path == RelativeTo(c, root_dir)
     IN  IF pool[k].call = "search"
           THEN /\ pool' = [pool EXCEPT ![k].done =
                              Append(@, [path |-> r_path,
                                         n |-> Len(search_single_file(fs, c, PoolQuery,
                                                                      FALSE, FALSE))])]
                /\ touched' = touched \cup {Rd(Real(fs, c))}
                /\ UNCHANGED <<fs, fsVer, lastRet>>
           ELSE \E x \in {ReplaceEach([fs |-> fs, files_updated |-> 0, occurrences |-> 0,
                                       fire |-> <<>>, touched |-> {}],
                                      <<c>>, 1, PoolQuery, PoolReplacement, FALSE, FALSE)} :
                  /\ pool' = [pool EXCEPT ![k].done =
                                Append(@, [path |-> r_path, n |-> x.occurrences])]
                  /\ fs' = x.fs
                  /\ touched' = touched \cup x.touched
                  /\ fsVer' = IF x.fs # fs THEN fsVer + 1 ELSE fsVer
                  /\ lastRet' = IF x.fs # fs
                                  THEN [h \in BOOLEAN |-> [lastRet[h] EXCEPT !.clean = FALSE]]
                                  ELSE lastRet
  /\ UNCHANGED <<cache, lastCacheUpdate, now, resp, events, nOps, meta, lock, threads, ws>>

\* one turn of the as_completed loop of call k.  search: a result that is
\* not empty is added, and the loop is left when results has MaxMatches
\* members.  replace: a result that is not None is counted and announced.
\* The loop also ends with the last future.
Consume(k) ==
  /\ pool[k].phase = "loop"
  /\ pool[k].taken < Len(pool[k].done)
  /\ LET res == pool[k].done[pool[k].taken + 1]
         found == pool[k].found + res.n
         last == pool[k].taken + 1 = Len(pool[k].queue)
     IN  IF pool[k].call = "search"
           THEN /\ pool' = [pool EXCEPT
                              ![k].taken = @ + 1,
                              ![k].found = found,
                              ![k].phase = IF (res.n > 0 /\ found >= MaxMatches) \/ last
                                             THEN "exit" ELSE "loop"]
                /\ UNCHANGED <<cache, events, lastRet>>
           ELSE /\ pool' = [pool EXCEPT
                              ![k].taken = @ + 1,
                              ![k].files_updated = IF res.n > 0 THEN @ + 1 ELSE @,
                              ![k].occurrences = @ + res.n,
                              ![k].phase = IF last THEN "exit" ELSE "loop"]
                /\ cache' = IF res.n > 0 THEN fire_update(cache) ELSE cache
                /\ events' = IF res.n > 0
                               THEN events \o FiredAt(<<Ev("write", res.path)>>, now)
                               ELSE events
                /\ lastRet' = IF res.n > 0
                                THEN [h \in BOOLEAN |-> [lastRet[h] EXCEPT !.clean = FALSE]]
                                ELSE lastRet
  /\ UNCHANGED <<fs, lastCacheUpdate, now, resp, touched, nOps, meta, fsVer, lock, threads, ws>>

\* the end of the with block is shutdown(wait=True): the threads are joined,
\* and they leave only when the work queue is empty
Drained(p) == p.started = Len(p.queue) /\ Len(p.done) = Len(p.queue)

\* the call k answers: results[:MaxMatches], or the counts of replace
Return(k) ==
  /\ pool[k].phase = "exit"
  /\ Drained(pool[k])
  /\ pool' = [pool EXCEPT ![k].phase = "returned"]
  /\ nOps' = nOps + 1
  /\ UNCHANGED <<fs, cache, lastCacheUpdate, now, resp, touched, events, meta, fsVer,
                 lastRet, lock, threads, ws>>

InitPool ==
  /\ fs \in {PoolTree, ShortTree}
  /\ InitManager

NextPool ==
  \E k \in PoolCalls :
    PoolCall(k) \/ StartWorker(k) \/ Finish(k) \/ Consume(k) \/ Return(k)

SpecPool == InitPool /\ [][NextPool]_vars

---------------------------------------------------------------------------
(* Listings over trees of several shapes *)

\* listings run in one behaviour
MaxListOps == 2

\* a tree whose folder a holds allowed files, a hidden allowed file, a hidden
\* folder, a file that is not allowed, an excluded folder and a broken symlink
ListTree ==
  Outside @@ (ConfigDir :> Dir)
    @@ (<<n_config, n_a>> :> Dir)
    @@ (<<n_config, n_a, n_b_py>> :> File(Chr_f))
    @@ (<<n_config, n_a, n_n_py>> :> File(<<"f", "f">>))
    @@ (<<n_config, n_a, n_gitignore>> :> File(Chr_f))
    @@ (<<n_config, n_a, n_storage>> :> Dir)
    @@ (<<n_config, n_a, n_storage, n_core>> :> File(Chr_f))
    @@ (<<n_config, n_a, n_x_exe>> :> File(Chr_f))
    @@ (<<n_config, n_a, n_deps>> :> Dir)
    @@ (<<n_config, n_a, n_l>> :> Link(FALSE, <<n_n>>))

\* folders below one another in the deep tree
DeepLevels == 22

\* the value of max_files in the walks that are to reach it
SmallMaxFiles == 3

\* a chain of DeepLevels folders named a with one file at its end
DeepTree ==
  Outside
    @@ [p \in {ConfigDir \o Repeat(<<n_a>>, k) : k \in 0..DeepLevels} |-> Dir]
    @@ ((ConfigDir \o Repeat(<<n_a>>, DeepLevels) \o <<n_b_py>>) :> File(Chr_f))

\* a root with two folders and more files than SmallMaxFiles
WideTree ==
  Outside @@ (ConfigDir :> Dir)
    @@ (<<n_config, n_a>> :> Dir)
    @@ (<<n_config, n_a, n_b_py>> :> File(Chr_f))
    @@ (<<n_config, n_n>> :> Dir)
    @@ (<<n_config, n_b_py>> :> File(Chr_f))
    @@ (<<n_config, n_n_py>> :> File(Chr_f))
    @@ (<<n_config, n_p_py>> :> File(Chr_f))
    @@ (<<n_config, n_x_exe>> :> File(Chr_f))

ListTrees == {InitTree, ListTree, DeepTree, WideTree}

\* the paths clients list ("" is the root)
ListPaths ==
  { <<EMPTY>>, <<n_a>>, <<n_a, EMPTY>>, <<DOT>>, <<n_a, DOTDOT, n_a>>, <<n_storage>>,
    <<n_a, n_storage>>, <<n_deps>>, <<n_l>>, <<DOTDOT, n_etc>>, <<n_a, n_b_py>>, <<n_n>> }

InitList ==
  /\ fs \in ListTrees
  /\ InitManager

ListDirectory ==
  \E path \in ListPaths, show_hidden \in BOOLEAN :
    /\ nOps < MaxListOps
    /\ Handle("list_directory", path, <<EMPTY>>, <<>>,
              Res(200, fs, <<>>, {},
                  [out |-> list_directory(fs, path, show_hidden), show_hidden |-> show_hidden]))

\* the walk of one list_all call that does not raise, with max_files as the
\* code sets it or small enough to be reached
WalkTree ==
  \E show_hidden \in BOOLEAN, file_limit \in {max_files, SmallMaxFiles} :
  \E ret \in {WalkWithin(fs, show_hidden, file_limit)} :
    /\ nOps < MaxListOps
    /\ Handle("walk", <<EMPTY>>, <<EMPTY>>, <<>>,
              Res(200, fs, <<>>, {St(q) : q \in WalkStats(fs, show_hidden, ret)},
                  [ret |-> ret, show_hidden |-> show_hidden, file_limit |-> file_limit]))

NextList == ListDirectory \/ WalkTree

SpecList == InitList /\ [][NextList]_vars

\* the paths whose stat() may raise while path is listed: none, or one child
\* of the folder the path leads to
DeniedSets(f, path) ==
  LET safe == IF path # <<EMPTY>> THEN get_safe_path(f, root_dir, path) ELSE {root_dir}
  IN  {{}} \cup {{c} : c \in UNION {Children(f, sp) : sp \in {q \in safe : IsDir(f, q)}}}

\* list_directory on a filesystem where stat() of some child may raise
ListDirectoryDenied ==
  \E path \in ListPaths, show_hidden \in BOOLEAN :
    /\ nOps < MaxListOps
    /\ \E denied \in DeniedSets(fs, path) :
         Handle("list_directory", path, <<EMPTY>>, <<>>,
                Res(200, fs, <<>>, {},
                    [out |-> list_directory_denied(fs, path, show_hidden, denied),
                     show_hidden |-> show_hidden, denied |-> denied]))

NextListDenied == ListDirectoryDenied

SpecListDenied == InitList /\ [][NextListDenied]_vars

---------------------------------------------------------------------------
(* Archives: download_folder and download_multi *)

\* archives built in one behaviour
MaxArchiveOps == 2


\* a tree whose folder a holds allowed files, a hidden allowed file, a file
\* that is not allowed, a hidden folder, an excluded folder, a subfolder and
\* a dangling symlink of an allowed name; the root holds a file named as one
\* in the subfolder, a hidden file and a symlink to the folder a
ArchiveTree ==
  Outside @@ (ConfigDir :> Dir)
    @@ (<<n_config, n_a>> :> Dir)
    @@ (<<n_config, n_a, n_b_py>> :> File(<<"f", "f">>))
    @@ (<<n_config, n_a, n_gitignore>> :> File(Chr_f))
    @@ (<<n_config, n_a, n_x_exe>> :> File(Chr_f))
    @@ (<<n_config, n_a, n_storage>> :> Dir)
    @@ (<<n_config, n_a, n_storage, n_core>> :> File(Chr_f))
    @@ (<<n_config, n_a, n_deps>> :> Dir)
    @@ (<<n_config, n_a, n_deps, n_b_py>> :> File(Chr_f))
    @@ (<<n_config, n_a, n_n>> :> Dir)
    @@ (<<n_config, n_a, n_n, n_n_py>> :> File(Chr_r))
    @@ (<<n_config, n_n_py>> :> File(Chr_f))
    @@ (<<n_config, n_gitignore>> :> File(Chr_f))
    @@ (<<n_config, n_l>> :> Link(FALSE, <<n_a>>))
    @@ (<<n_config, n_deps>> :> Dir)
    @@ (<<n_config, n_deps, n_p_py>> :> Link(FALSE, <<n_n>>))

\* the folders clients ask an archive of ("" and "." are the root)
ArchiveFolders ==
  { <<EMPTY>>, <<DOT>>, <<n_a>>, <<n_a, n_n>>, <<n_a, n_storage>>, <<n_a, n_deps>>,
    <<n_deps>>, <<n_l>>, <<n_a, n_b_py>>, <<DOTDOT, n_etc>>, <<n_n>> }

\* the path lists of download_multi
ArchivePathLists ==
  { <<>>,
    << <<n_a>> >>,
    << <<n_a, n_b_py>>, <<n_n_py>> >>,             \* files of two folders
    << <<n_a, n_n>>, <<n_a, n_b_py>> >>,       \* a folder and a file beside it
    << <<n_a, n_n, n_n_py>>, <<n_n_py>> >>,    \* files of one name in two folders
    << <<n_a>>, <<n_l>> >>,                        \* a folder and a symlink to it
    << <<n_a>>, <<DOT, n_a>> >>,                   \* one folder spelled twice
    << <<n_a, n_gitignore>> >>,                    \* a hidden file
    << <<n_a, n_storage>> >>,                      \* a hidden folder
    << <<n_a, n_deps>>, <<n_a, n_x_exe>> >>,       \* an excluded folder, a file not allowed
    << <<n_deps>>, <<n_n_py>> >>,                  \* a folder with a dangling symlink
    << <<DOTDOT, n_etc>>, <<n_n>>, <<n_n_py>> >> } \* out of the sandbox, missing

InitArchive ==
  /\ fs \in {InitTree, ListTree, ArchiveTree}
  /\ InitManager

ArchiveFolder ==
  \E path \in ArchiveFolders :
    /\ nOps < MaxArchiveOps
    /\ Handle("download_folder", path, <<EMPTY>>, <<>>, download_folder(fs, path))

ArchiveMany ==
  \E paths \in ArchivePathLists :
    /\ nOps < MaxArchiveOps
    /\ Handle("download_multi", <<EMPTY>>, <<EMPTY>>, paths, download_multi(fs, paths))

NextArchive == ArchiveFolder \/ ArchiveMany

SpecArchive == InitArchive /\ [][NextArchive]_vars

---------------------------------------------------------------------------
(* The websocket layer: subscribe_updates, the heartbeat of the watcher, and
   the bus handing fired events to the listeners of their type *)

\* heartbeats fired in one behaviour
MaxPolls == 1

\* the event type _fire_update fires (file_manager.py 83)
FileManagerEvent == "blueprint_studio_update"

\* the event type async_watch_filesystem fires (websocket.py 60)
HeartbeatEvent == "code_mirror_update"

\* the event type websocket_subscribe_updates listens to (websocket.py 84)
SubscribedEvent == "code_mirror_update"

\* the type under which an event of the bus was fired
EventType(e) == IF e.action = "poll" THEN HeartbeatEvent ELSE FileManagerEvent

\* websocket_subscribe_updates: the listener is registered and the result sent
Subscribe ==
  \E c \in Conns :
    /\ ~ws.subs[c].on
    /\ ws' = [ws EXCEPT !.subs[c] = [on |-> TRUE, id |-> c, event_type |-> SubscribedEvent,
                                     since |-> Len(events)],
                        !.sent[c] = Append(@, [id |-> c, type |-> "result", event |-> <<>>])]
    /\ UNCHANGED <<fs, cache, lastCacheUpdate, now, resp, touched, events, nOps, meta, fsVer,
                   lastRet, lock, threads, pool>>

\* async_watch_filesystem: the heartbeat after a sleep
Poll ==
  /\ Cardinality({i \in 1..Len(events) : events[i].action = "poll"}) < MaxPolls
  /\ events' = Append(events, [action |-> "poll", path |-> NoPath, timestamp |-> now])
  /\ UNCHANGED <<fs, cache, lastCacheUpdate, now, resp, touched, nOps, meta, fsVer,
                 lastRet, lock, threads, pool, ws>>

\* forward_update: the message a listener sends for an event
Forwarded(c, e) == [id |-> ws.subs[c].id, type |-> "event", event |-> e]

\* the bus hands the next fired event to the listeners registered for its type
Dispatch ==
  /\ ws.seen < Len(events)
  /\ LET e == events[ws.seen + 1]
     IN  ws' = [ws EXCEPT !.seen = @ + 1,
                          !.sent = [c \in Conns |->
                                      IF ws.subs[c].on /\ ws.subs[c].event_type = EventType(e)
                                        THEN Append(ws.sent[c], Forwarded(c, e))
                                        ELSE ws.sent[c]]]
  /\ UNCHANGED <<fs, cache, lastCacheUpdate, now, resp, touched, events, nOps, meta, fsVer,
                 lastRet, lock, threads, pool>>

NextWs == Subscribe \/ Poll \/ Dispatch \/ WriteFile \/ Delete

SpecWs == Init /\ [][NextWs]_vars

---------------------------------------------------------------------------
(* Claims about the directory cache *)

\* entry e may be listed under the flag show_hidden: none of the folders above
\* it is excluded, and unless hidden names are shown neither its name nor the
\* name of a folder above it starts with "."
EntryVisible(e, show_hidden) ==
  /\ e.name = e.path[Len(e.path)]
  /\ \A i \in 1..(Len(e.path) - 1) : e.path[i] \notin EXCLUDED_PATTERNS
  /\ ~show_hidden => \A i \in 1..Len(e.path) : ~StartsWithDot(e.path[i])

\* C6: listAll(showHidden=false) returns no entry whose name starts with ".",
\* and no listAll result holds an entry under an excluded folder, whether it
\* comes from a walk, from the cache or from the stale fallback; each cached
\* sequence obeys the rule of the flag it is cached under.
C6_HiddenAndExcludedPruned ==
  /\ resp.op = "list_all" =>
       \A i \in 1..Len(resp.body.ret) : EntryVisible(resp.body.ret[i], resp.body.show_hidden)
  /\ \A k \in DOMAIN cache : \A i \in 1..Len(cache[k]) : EntryVisible(cache[k][i], k)

C6_Witness ==
  /\ resp.op = "list_all"
  /\ resp.body.how = "hit"
  /\ ~resp.body.show_hidden
  /\ resp.body.ret # <<>>
  /\ TRUE \in DOMAIN cache
  /\ \E i \in 1..Len(cache[TRUE]) : StartsWithDot(cache[TRUE][i].name)
  /\ \E p \in DOMAIN fs : IsRelativeTo(p, <<n_config, n_deps>>) /\ p # <<n_config, n_deps>>

\* the step is a call of list_all without force, for a flag whose previous call
\* returned what is cached, with no gateway mutation since and the cache
\* timestamp less than the TTL old
SecondCallInWindow ==
  /\ nOps' > nOps
  /\ resp'.op = "list_all"
  /\ ~resp'.body.force
  /\ LET h == lastRet[resp'.body.show_hidden]
     IN  h.called /\ h.stored /\ h.clean /\ now - h.stamp < CacheTtl

ForcedCall == nOps' > nOps /\ resp'.op = "list_all" /\ resp'.body.force

\* C7 as stated: the second of two calls in the TTL window returns what the
\* first returned, and a forced call always walks and replaces the cached entry.
C7_ForceAlwaysReplaces ==
  [][/\ SecondCallInWindow => resp'.body.ret = lastRet[resp'.body.show_hidden].ret
     /\ ForcedCall =>
          /\ resp'.body.how = "walk"
          /\ resp'.body.ret = Walk(fs, resp'.body.show_hidden)
          /\ CacheKey(resp'.body.show_hidden) \in DOMAIN cache'
          /\ cache'[CacheKey(resp'.body.show_hidden)] = resp'.body.ret]_vars

\* C7 amended: the second of two calls in the TTL window is served from the
\* cache and returns what the first returned, whatever else changed the tree; a
\* forced call is never served as a hit: it walks, and when the walk succeeds it
\* returns and caches the tree as it is now and stamps the cache, and when the
\* walk fails it leaves the cache and its timestamp as they were.
C7_HitAndForce ==
  [][/\ SecondCallInWindow =>
          /\ resp'.body.how = "hit"
          /\ resp'.body.ret = lastRet[resp'.body.show_hidden].ret
     /\ ForcedCall =>
          /\ resp'.body.how # "hit"
          /\ resp'.body.how = "walk" =>
               /\ resp'.body.ret = Walk(fs, resp'.body.show_hidden)
               /\ CacheKey(resp'.body.show_hidden) \in DOMAIN cache'
               /\ cache'[CacheKey(resp'.body.show_hidden)] = resp'.body.ret
               /\ lastCacheUpdate' = now
          /\ resp'.body.how \in {"stale", "empty"} =>
               cache' = cache /\ lastCacheUpdate' = lastCacheUpdate]_vars

C7_Witness ==
  /\ resp.op = "list_all"
  /\ resp.body.how = "hit"
  /\ fsVer = 0
  /\ resp.body.ret # Walk(fs, resp.body.show_hidden)

\* C8: a listAll without forceRefresh never returns a cached entry that was
\* captured 30 seconds or more before the call, whatever calls were made for
\* the other visibility flag.
C8_EntryYoungerThanTtl ==
  (resp.op = "list_all" /\ ~resp.body.force /\ resp.body.how = "hit") =>
    resp.body.time - meta[CacheKey(resp.body.show_hidden)].at < CacheTtl

\* C9: a listAll without forceRefresh never serves an entry captured before a
\* gateway operation that has changed the filesystem and returned.
C9_NoEntryFromBeforeMutation ==
  (resp.op = "list_all" /\ ~resp.body.force /\ resp.body.how = "hit") =>
    meta[CacheKey(resp.body.show_hidden)].ver = fsVer

---------------------------------------------------------------------------
(* Claims about the gateway's handlers *)

\* C2: every read or write of file content by a gateway operation targets a
\* file whose canonical location is the sandbox root or a descendant of it,
\* also when the tree holds symlinks that point outside the root.
C2_ContentTouchesInside ==
  resp.op \in {"read_file", "write_file", "global_replace", "download_folder", "list_all"} =>
    \A t \in touched : t.mode \in {"read", "write"} => IsRelativeTo(t.path, ConfigDir)

\* the client path leaves the sandbox when it is resolved in tree f
Escapes(f, path) == ~IsRelativeTo(ResolveUnder(f, ConfigDir, path), ConfigDir)

\* the operations that take one client path, and the two that take a second one
PathOps ==
  { "read_file", "get_file_stat", "write_file", "create_file", "create_folder", "delete",
    "copy", "rename", "upload_file", "upload_folder", "download_folder" }
TwoPathOps == { "copy", "rename" }

\* the answer r was given to a request whose path, resolved in tree f, leaves the sandbox
EscapeAttempt(f, r) ==
  /\ r.op \in PathOps
  /\ \/ Escapes(f, r.path)
     \/ r.op \in TwoPathOps /\ Escapes(f, r.dest)

\* the status each handler answers an escape attempt with
RefusalStatus(r) ==
  CASE r.op \in {"read_file", "get_file_stat", "download_folder"} -> 404
    [] r.op = "delete" -> IF is_protected(r.path) THEN 403 ELSE 404
    [] r.op = "upload_folder" -> 400
    [] OTHER -> 403

OutsideAllowList(p) ==
  /\ Lower(Suffix(PathName(p))) \notin ALLOWED_EXTENSIONS
  /\ PathName(p) \notin ALLOWED_FILENAMES
  /\ ~IsRelativeTo(p, Append(root_dir, n_storage))

\* C4: readFile and writeFile answer forbidden for a file whose extension and
\* name are not in the allowed sets and which is not under the root's .storage
\* subtree, and neither return nor write its content.
C4_AllowListEnforced ==
  resp.op \in {"read_file", "write_file"} =>
    \A p \in get_safe_path(fs, root_dir, resp.path) :
      IsFile(fs, p) /\ OutsideAllowList(p) => resp.status = 403 /\ touched = {}

\* the location p is a protected path or lies in a protected top-level folder
ProtectedLocation(p) ==
  /\ IsRelativeTo(p, root_dir)
  /\ p # root_dir
  /\ LET rel == RelativeTo(p, root_dir)
     IN  rel[1] \in PROTECTED_PATHS \/ JoinSlash(rel) \in PROTECTED_PATHS

\* C5: delete, deleteMany, rename and moveMany leave every protected file or
\* folder in place, whatever spelling of its path they are given.
C5_ProtectedStay ==
  resp.op \in {"delete", "delete_multi", "rename", "move_multi"} =>
    \A p \in DOMAIN InitTree : ProtectedLocation(p) => p \in DOMAIN fs

\* the last handler was a successful writeFile, delete, rename or replace
MutationDone ==
  resp.status = 200 /\ resp.op \in {"write_file", "delete", "rename", "global_replace"}

\* the step is a call of listAll(forceRefresh=true)
RefreshAfter == nOps' > nOps /\ resp'.op = "list_all" /\ resp'.body.force

\* where the last handler put something, and where it took something away
NewLocation == ResolveUnder(fs, root_dir, IF resp.op = "rename" THEN resp.dest ELSE resp.path)
OldLocation == ResolveUnder(fs, root_dir, resp.path)

Listed(ret, p) == \E i \in 1..Len(ret) : root_dir \o ret[i].path = p
NoneUnder(ret, p) == \A i \in 1..Len(ret) : ~IsRelativeTo(root_dir \o ret[i].path, p)
SizesCurrent(f, ret) ==
  \A i \in 1..Len(ret) :
    (ret[i].type = "file" /\ Exists(f, root_dir \o ret[i].path)) =>
      ret[i].size = FileSize(f, root_dir \o ret[i].path)

\* the walker lists location p under the flag show_hidden: no folder above it
\* is excluded or (unless shown) hidden, a folder is itself not excluded, a
\* file passes the allow-list, and its own name is not hidden (unless shown)
VisibleToWalker(f, p, show_hidden) ==
  /\ IsRelativeTo(p, root_dir) /\ p # root_dir
  /\ LET rel == RelativeTo(p, root_dir) IN
     /\ \A i \in 1..(Len(rel) - 1) : rel[i] \notin EXCLUDED_PATTERNS
     /\ ~show_hidden => \A i \in 1..Len(rel) : ~StartsWithDot(rel[i])
     /\ IsDir(f, p) => PathName(p) \notin EXCLUDED_PATTERNS
     /\ ~IsDir(f, p) => is_file_allowed(p)

\* C10 as stated: after a successful writeFile, delete, rename or replace, an
\* immediately following listAll(forceRefresh=true) lists the written or
\* renamed allowed file under its new path, lists nothing at a deleted or
\* renamed-away path, and gives every file its current size.
C10_RefreshReflects ==
  [][(MutationDone /\ RefreshAfter) =>
       /\ SizesCurrent(fs, resp'.body.ret)
       /\ (resp.op \in {"write_file", "rename"} /\ IsFile(fs, NewLocation)
             /\ is_file_allowed(NewLocation)) => Listed(resp'.body.ret, NewLocation)
       /\ resp.op \in {"delete", "rename"} => NoneUnder(resp'.body.ret, OldLocation)]_vars

\* C10 amended: after a successful writeFile, delete, rename or replace, an
\* immediately following listAll(forceRefresh=true) lists nothing at a deleted
\* or renamed-away path; and when its walk does not fail it gives every file
\* its current size and lists the written or renamed file or folder under its
\* new path provided the walker lists that location at all (it is not under an
\* excluded or hidden folder, is not hidden itself unless showHidden is set,
\* and a file passes the allow-list).
C10_RefreshReflectsVisible ==
  [][(MutationDone /\ RefreshAfter) =>
       /\ resp.op \in {"delete", "rename"} => NoneUnder(resp'.body.ret, OldLocation)
       /\ resp'.body.how = "walk" =>
            /\ SizesCurrent(fs, resp'.body.ret)
            /\ (resp.op \in {"write_file", "rename"} /\ Exists(fs, NewLocation)
                  /\ VisibleToWalker(fs, NewLocation, resp'.body.show_hidden))
                 => Listed(resp'.body.ret, NewLocation)]_vars

C10_Witness ==
  /\ resp.op = "list_all"
  /\ resp.body.force
  /\ resp.body.how = "walk"
  /\ Len(events) = 1 /\ events[1].action = "write" /\ events[1].path = <<n_n_py>>
  /\ \E i \in 1..Len(resp.body.ret) :
       resp.body.ret[i].path = <<n_n_py>> /\ resp.body.ret[i].size = Len(Chr_g)

---------------------------------------------------------------------------
(* Claims about search and replace *)

Searched == resp.op = "global_search"

\* what the as_completed loop of the last search held before the final slice
Gathered ==
  SearchEach(fs, <<>>, resp.paths, 1, resp.path, resp.body.case_sensitive, resp.body.match_word)

\* C11: whatever the query, the flags, the tree and the order in which the
\* workers complete, a search answers at most 2000 matches.
C11_SearchTotalCap == Searched => Len(resp.body.out) <= 2000

\* C11 witness: a search whose workers gathered more than 2000 matches
\* answered 2000 of them.
C11_Witness == Searched /\ Len(Gathered) > 2000 /\ Len(resp.body.out) = 2000

\* the matches of an answer whose path is r_path
MatchesOf(out, r_path) == SelectSeq(out, LAMBDA m : m.path = r_path)

\* C12: whatever the query and the file, a search answers at most 100
\* matches whose path is that file, however many of its lines match.
C12_SearchFileCap ==
  Searched => \A c \in Range(resp.paths) :
                Len(MatchesOf(resp.body.out, RelativeTo(c, root_dir))) <= 100

\* the step is a call of replace
ReplaceStep == nOps' = nOps + 1 /\ resp'.op = "global_replace"

\* C13: whatever the query and the replacement, replace leaves the content of
\* every protected file (its path, or the first segment of its path, is in
\* the protected list) as it was.
C13_ReplaceSparesProtected ==
  [][ReplaceStep =>
       \A p \in DOMAIN fs : ProtectedLocation(p) => p \in DOMAIN fs' /\ fs'[p] = fs[p]]_vars

\* the content of candidate c before the step, with every occurrence of the
\* query of the step replaced by its replacement, and the number of them
Substituted(c) ==
  SubnFrom(fs[Real(fs, c)].content, 1, resp'.path, resp'.dest,
           resp'.body.case_sensitive, resp'.body.match_word)

\* the candidates that hold the query before the step
Holding == {c \in {c \in ReplaceTargets(fs) : IsFile(fs, c)} : Substituted(c).count > 0}

\* C14: when replace answers success, filesUpdated is the number of candidate
\* files that held the query, occurrences is the sum of their occurrence
\* counts, and readFile then gives each of them with every occurrence
\* substituted.
C14_ReplaceResult ==
  [][ReplaceStep /\ resp'.body.out.success =>
       /\ resp'.body.out.files_updated = Cardinality(Holding)
       /\ resp'.body.out.occurrences = SumOver(Holding, [c \in Holding |-> Substituted(c).count])
       /\ \A c \in Holding :
            LET r == read_file(fs', RelativeTo(c, root_dir))
            IN  r.status = 200 /\ r.body.content = Substituted(c).out]_vars

\* c is a candidate of search: a file of the tree that passes the allow list,
\* is not binary, and lies under no hidden, excluded or linked folder
SearchCandidate(c) ==
  /\ c \in DOMAIN fs /\ IsRelativeTo(c, root_dir) /\ c # root_dir
  /\ IsFile(fs, c)
  /\ is_file_allowed(c)
  /\ Lower(Suffix(PathName(c))) \notin BINARY_EXTENSIONS
  /\ \A k \in (Len(root_dir) + 1)..(Len(c) - 1) :
       /\ fs[SubSeq(c, 1, k)].kind = "dir"
       /\ ~StartsWithDot(c[k])
       /\ c[k] \notin EXCLUDED_PATTERNS

\* the line holds the query of the last search: as it is or with case folded,
\* anywhere or as a whole word
LineHolds(line) ==
  LET q    == resp.path
      Fold(t) == IF resp.body.case_sensitive THEN t ELSE Lower(t)
      Edge(i) == (i > 1 /\ IsWordChar(line[i - 1])) # (i <= Len(line) /\ IsWordChar(line[i]))
  IN  \E i \in 1..(Len(line) + 1) :
        /\ i + Len(q) - 1 <= Len(line)
        /\ SubSeq(Fold(line), i, i + Len(q) - 1) = Fold(q)
        /\ resp.body.match_word => Edge(i) /\ Edge(i + Len(q))

\* the numbers of the lines of c that hold the query
HoldingLines(c) ==
  LET lines == FileLines(fs[Real(fs, c)].content)
  IN  {i \in 1..Len(lines) : LineHolds(lines[i])}

\* no file has more than 100 matching lines and the total is below 2000
BelowCaps ==
  LET cand == {c \in DOMAIN fs : SearchCandidate(c)}
      n    == [c \in cand |-> Cardinality(HoldingLines(c))]
  IN  (\A c \in cand : n[c] <= 100) /\ SumOver(cand, n) < 2000

\* C15: below the caps a search answers exactly one match for each matching
\* line of each candidate file, with the file's path relative to the root and
\* the line's number counted from 1, and none for any other line or file.
C15_SearchExact ==
  Searched /\ BelowCaps =>
    LET out == resp.body.out
        expected == UNION {{[path |-> RelativeTo(c, root_dir), line |-> i] : i \in HoldingLines(c)} :
                           c \in {c \in DOMAIN fs : SearchCandidate(c)}}
    IN  /\ {[path |-> out[k].path, line |-> out[k].line] : k \in 1..Len(out)} = expected
        /\ Len(out) = Cardinality(expected)

\* C15 witness: a search below the caps found the query on the second line of
\* a file whose third line does not hold it, while a file outside the allow
\* list holds it too.
C15_Witness ==
  /\ Searched /\ BelowCaps
  /\ \E k \in 1..Len(resp.body.out) :
       /\ resp.body.out[k].path = <<n_a, n_b_py>> /\ resp.body.out[k].line = 2
       /\ 3 \notin HoldingLines(<<n_config, n_a, n_b_py>>)
  /\ 1 \in HoldingLines(<<n_config, n_x_exe>>)

---------------------------------------------------------------------------
(* Claims about createFile *)

\* the step is a call of createFile on a path that names something that exists
CreateOnExisting ==
  /\ nOps' = nOps + 1 /\ resp'.op = "create_file"
  /\ Exists(fs, ResolveUnder(fs, root_dir, resp'.path))

\* the step changed no file, left the cache as it was and fired no event
NothingChanged ==
  /\ fs' = fs /\ cache' = cache /\ lastCacheUpdate' = lastCacheUpdate
  /\ events' = events /\ touched' = {}

\* C16 as stated: createFile on a path that exists answers 409, changes no
\* content, does not empty the cache and fires no event.
C16_CreateExistingConflict ==
  [][CreateOnExisting => resp'.status = 409 /\ NothingChanged]_vars

\* C16: createFile on a path that exists changes no content, does not empty
\* the cache and fires no event; it answers 409 when the path passes the
\* sandbox and the allow list, and 403 when it does not.
C16_CreateNeverOverwrites ==
  [][CreateOnExisting =>
       /\ NothingChanged
       /\ LET safe == get_safe_path(fs, root_dir, resp'.path)
          IN  resp'.status = IF safe # {} /\ \A sp \in safe : is_file_allowed(sp)
                               THEN 409 ELSE 403]_vars

\* C16 witness: createFile on an existing allowed file was answered 409 while
\* the cache held a listing.
C16_Witness ==
  /\ resp.op = "create_file" /\ resp.status = 409
  /\ resp.path = <<n_a, n_b_py>>
  /\ cache # EmptyCache

---------------------------------------------------------------------------
(* Claims about the listings *)

\* the names of a sequence of entries
Names(es) == {es[i].name : i \in 1..Len(es)}

\* the entries of a sequence whose name does not start with "."
NotHidden(es) == SelectSeq(es, LAMBDA e : ~StartsWithDot(e.name))

\* C17: for every directory, listOne without showHidden gives no folder or
\* file whose name starts with ".", and its folders and files are those of
\* listOne with showHidden without the hidden-named ones.
C17_ListOneHidden ==
  resp.op = "list_directory" =>
    LET shown  == list_directory(fs, resp.path, TRUE)
        hidden == list_directory(fs, resp.path, FALSE)
    IN  /\ resp.body.out = IF resp.body.show_hidden THEN shown ELSE hidden
        /\ \A n \in Names(hidden.folders) \cup Names(hidden.files) : ~StartsWithDot(n)
        /\ hidden.folders = NotHidden(shown.folders)
        /\ hidden.files = NotHidden(shown.files)
        /\ hidden.error = shown.error

\* C17 witness: a folder was listed without showHidden; it holds two allowed
\* files that were listed, and a hidden allowed file and a hidden folder that
\* only the listing with showHidden holds.
C17_Witness ==
  /\ resp.op = "list_directory" /\ ~resp.body.show_hidden
  /\ Len(resp.body.out.files) = 2
  /\ Len(list_directory(fs, resp.path, TRUE).files) > 2
  /\ Len(list_directory(fs, resp.path, TRUE).folders) > Len(resp.body.out.folders)

---------------------------------------------------------------------------
(* Claims about a walk that fails *)

\* the step is a call of listAll whose walk raised
FailedWalk ==
  /\ nOps' = nOps + 1 /\ resp'.op = "list_all"
  /\ resp'.body.how \in {"stale", "empty"}

\* C18: a listAll whose walk raises answers the sequence cached for the same
\* visibility key, which is the one the last successful walk for that key
\* gave, or the empty sequence if none is cached; the cache and its timestamp
\* are left as they were.
C18_FailedWalkFallsBack ==
  [][FailedWalk =>
       LET k == CacheKey(resp'.body.show_hidden) IN
       /\ resp'.status = 200
       /\ k \in DOMAIN cache => resp'.body.ret = cache[k] /\ cache[k] = meta[k].seq
       /\ k \notin DOMAIN cache => resp'.body.ret = <<>>
       /\ cache' = cache /\ lastCacheUpdate' = lastCacheUpdate]_vars

\* C18 witness: a walk failed after the tree had changed; the answer is the
\* cached listing, which no longer describes the tree, and it is still cached.
C18_Witness ==
  /\ resp.op = "list_all" /\ resp.body.how = "stale"
  /\ resp.body.ret # <<>>
  /\ resp.body.ret # Walk(fs, resp.body.show_hidden)
  /\ cache[CacheKey(resp.body.show_hidden)] = resp.body.ret

---------------------------------------------------------------------------
(* Claims about the limits of the walk *)

Walked == resp.op = "walk"

\* C19: whatever the shape of the tree, the sequence one walk produces holds
\* no more entries, files and folders together, than the file-count limit.
C19_EntryCountLimit == Walked => Len(resp.body.ret) <= resp.body.file_limit

\* how deep below the root the directory d lies
Depth(d) == Len(RelativeTo(d, root_dir))

\* the directories inside the root that the size aggregation of the walk's
\* folder entries scanned
AggregationScanned ==
  {d \in UNION {DirSizeDirs(fs, root_dir \o resp.body.ret[i].path) :
                  i \in {j \in 1..Len(resp.body.ret) : resp.body.ret[j].type = "folder"}} :
     IsRelativeTo(d, root_dir)}

\* C20: one walk scans no directory deeper than the depth limit, the
\* aggregation of folder sizes included, and every path it returns has at
\* most as many segments as the limit.
C20_DepthLimit ==
  Walked =>
    /\ \A i \in 1..Len(resp.body.ret) : Len(resp.body.ret[i].path) <= max_depth
    /\ \A d \in AggregationScanned : Depth(d) <= max_depth

---------------------------------------------------------------------------
(* Claims about the order of the entries *)

\* no entry of s has a path string smaller than the entry before it
AscendingByPath(s) ==
  \A i \in 1..(Len(s) - 1) : ~StrLess(PathKey(s[i + 1]), PathKey(s[i]))

\* C21: in every reachable state each cached sequence, and every sequence
\* listAll returns, is in ascending order of the entries' relative path.
C21_SortedByPath ==
  /\ \A k \in DOMAIN cache : AscendingByPath(cache[k])
  /\ resp.op = "list_all" => AscendingByPath(resp.body.ret)

\* a walk that showed hidden names has cached and returned a sequence in which
\* an entry inside a folder comes before an entry of the root
C21_Witness ==
  /\ resp.op = "list_all"
  /\ resp.body.how = "walk"
  /\ TRUE \in DOMAIN cache
  /\ cache[TRUE] = resp.body.ret
  /\ \E i \in 1..(Len(resp.body.ret) - 1) :
       Len(resp.body.ret[i].path) = 2 /\ Len(resp.body.ret[i + 1].path) = 1

---------------------------------------------------------------------------
(* Claims about whole calls of search and replace *)

SearchCalled == resp.op = "search"

\* the pattern of the last call, as the call built it
CallPattern ==
  CompilePattern(resp.body.query, resp.body.use_regex, resp.body.match_word)

\* the files the last search had to look at: the candidates its globs keep
CallSearchFiles == search_files(fs, resp.body.include, resp.body.exclude)

\* the file can be opened: it is a regular file or a symlink that leads to one
Readable(c) == IsFile(fs, c)

\* the numbers of the lines of c on which the pattern of the last call is found
LinesFound(c) ==
  LET lines == FileLines(fs[Real(fs, c)].content)
  IN  {i \in 1..Len(lines) :
         PatternSearch(lines[i], CallPattern.items, resp.body.case_sensitive,
                       resp.body.match_word)}

C22_BadPatternAnswered ==
  /\ SearchCalled
  /\ resp.body.use_regex /\ ~resp.body.query.null /\ ~RegexValid(resp.body.query.text)
  /\ resp.body.out = <<>>

---------------------------------------------------------------------------
(* Claims about change notifications *)

\* the action each mutating operation announces itself with
AnnouncedAs ==
  [write_file |-> "write", create_file |-> "create", create_folder |-> "create_folder",
   delete |-> "delete", delete_multi |-> "delete_multi", move_multi |-> "move_multi",
   copy |-> "copy", rename |-> "rename", upload_file |-> "upload",
   upload_folder |-> "upload_folder"]

\* the path its event carries: the path of the request, the destination of a
\* copy or rename, and none for the operations on several paths
AnnouncedPath ==
  IF resp'.op \in {"copy", "rename"} THEN resp'.dest
  ELSE IF resp'.op \in {"delete_multi", "move_multi"} THEN NoPath
  ELSE resp'.path

\* the events fired during the step
NewEvents == SubSeq(events', Len(events) + 1, Len(events'))

\* where the file an event of replace names lies
Announced(i) == Real(fs, root_dir \o NewEvents[i].path)

\* C23: every mutating operation that succeeds fires one event with its
\* action, its path and the time; replace fires one "write" event for each
\* file it rewrote, with that file's path, as many as its filesUpdated.
C23_ChangeNotifications ==
  [][nOps' = nOps + 1 =>
       /\ (resp'.op \in DOMAIN AnnouncedAs /\ resp'.status = 200) =>
            NewEvents = <<[action |-> AnnouncedAs[resp'.op], path |-> AnnouncedPath,
                           timestamp |-> now]>>
       /\ resp'.op = "global_replace" =>
            /\ Len(NewEvents) = resp'.body.files_updated
            /\ \A i \in 1..Len(NewEvents) :
                 /\ NewEvents[i].action = "write" /\ NewEvents[i].timestamp = now
                 /\ fs'[Announced(i)] # fs[Announced(i)]
                 /\ \A j \in 1..Len(NewEvents) : Announced(j) = Announced(i) => j = i
            /\ \A q \in DOMAIN fs :
                 fs'[q] # fs[q] => \E i \in 1..Len(NewEvents) : Announced(i) = q]_vars

\* C23 witness: a replace that rewrote two files has fired two events, after
\* an operation that had fired its own
C23_Witness ==
  /\ resp.op = "global_replace"
  /\ resp.body.files_updated = 2
  /\ Len(events) = 3
  /\ events[1].action # "write"

---------------------------------------------------------------------------
(* Claims about the cache lock *)

\* the thread is inside a with block of the cache lock
InCritical(t) == threads[t].pc \in {"check", "walk", "store", "except", "clear"}

\* C24: in every interleaving of listAll calls, invalidations and clear_cache
\* calls at most one thread is inside the critical section of the cache, and
\* it holds the lock; while a thread walks, stores or falls back, the cache is
\* as that thread found it, so no other thread has invalidated or filled it.
C24_CacheMutualExclusion ==
  /\ \A t, u \in Threads : InCritical(t) /\ InCritical(u) => t = u
  /\ \A t \in Threads : InCritical(t) => lock = t
  /\ \A t \in Threads :
       threads[t].pc \in {"walk", "store", "except"} => cache = threads[t].seen

\* C24 witness: one thread has walked and is about to store while an
\* invalidation and another listAll wait for the lock
C24_Witness ==
  \E t, u, v \in Threads :
    /\ threads[t].pc = "store"
    /\ threads[u].pc = "lock" /\ threads[u].op = "fire_update"
    /\ threads[v].pc = "lock" /\ threads[v].op = "list_all"

\* every thread has returned from its call
AllReturned == \A t \in Threads : threads[t].pc = "done"

\* every call is a listAll with one and the same visibility flag, not forced,
\* whose walk does not fail
SameListing ==
  \A t \in Threads :
    /\ threads[t].op = "list_all"
    /\ ~threads[t].force /\ ~threads[t].walk_fails
    /\ threads[t].show_hidden = threads[1].show_hidden

\* C25: when the calls that overlap on an empty cache are all listAll calls
\* with the same flag and without forceRefresh, and nothing invalidates, fails
\* or expires meanwhile, exactly one of them walks and each of the others
\* returns the entry that walk stored.
C25_NoDuplicateWalks ==
  AllReturned /\ SameListing =>
    \E w \in Threads :
      /\ threads[w].how = "walk"
      /\ \A t \in Threads \ {w} : threads[t].how = "hit" /\ threads[t].ret = threads[w].ret

\* C25 witness: all the calls were such calls and have returned a non-empty listing
C25_Witness ==
  /\ AllReturned /\ SameListing
  /\ NumThreads > 1
  /\ \A t \in Threads : threads[t].ret # <<>>

---------------------------------------------------------------------------
(* Claims about the worker pool *)

\* the loop of a search call was left because results had MaxMatches members
CapReached(p) ==
  p.call = "search" /\ p.phase \in {"exit", "returned"} /\ p.found >= MaxMatches

\* C26: once the matches a search call has gathered reach the cap, no worker
\* of that call starts on a file any more: the files not yet begun are left
\* unsearched, and the call does not wait for them.
C26_SearchEarlyStop ==
  [][\A k \in PoolCalls :
       CapReached(pool[k]) => pool'[k].started = pool[k].started]_vars

\* the call is between its submit calls and the end of its with block
PoolLive(p) == p.phase \in {"loop", "exit"}

\* C27: at every moment of a search or replace call at most 10 of its workers
\* are executing, however many candidate files it has; the pool belongs to the
\* call, so a call with a file waiting and fewer than 10 workers executing can
\* start one whatever the workers of the other calls are doing.
C27_WorkerPoolBound ==
  \A k \in PoolCalls :
    /\ Running(pool[k]) <= 10
    /\ Running(pool[k]) >= 0
    /\ (/\ PoolLive(pool[k])
        /\ pool[k].started < Len(pool[k].queue)
        /\ Running(pool[k]) < 10) => ENABLED StartWorker(k)

\* C27 witness: a call has 10 workers executing and more files waiting while
\* a worker of another call executes too
C27_Witness ==
  \E k, j \in PoolCalls :
    /\ k # j
    /\ Running(pool[k]) = 10
    /\ Len(pool[k].queue) > pool[k].started
    /\ Running(pool[j]) > 0
    /\ {pool[k].call, pool[j].call} = {"search", "replace"}

---------------------------------------------------------------------------
(* Claims about the files replace writes *)

\* the step is a call of replace
ReplaceCallStep == resp'.op = "replace" /\ nOps' = nOps + 1

\* the pattern of that call
StepPattern ==
  CompilePattern(resp'.body.query, resp'.body.use_regex, resp'.body.match_word)

\* the candidates of that call
StepTargets == target_files(fs, resp'.body.include, resp'.body.exclude)

\* the pattern occurs in the file c leads to
Occurs(c) ==
  LET content == fs[Real(fs, c)].content
  IN  \E i \in 1..Len(content) :
        MatchAt(content, i, StepPattern.items, resp'.body.case_sensitive,
                resp'.body.match_word)

\* the candidates with a count that is not zero: they can be read, the
\* pattern occurs in them and the replacement can be applied
StepRewritten ==
  {c \in StepTargets :
     /\ StepPattern.ok
     /\ IsFile(fs, c)
     /\ Occurs(c)
     /\ ParseTemplate(resp'.body.replacement, 1).ok}

C28_BadTemplateNoChange ==
  /\ resp.op = "replace"
  /\ resp.body.out.success
  /\ ~ParseTemplate(resp.body.replacement, 1).ok
  /\ resp.body.out.files_updated = 0
  /\ events = <<>>

---------------------------------------------------------------------------
(* Claims about the candidates of search and replace *)

\* the paths of the files list_all(show_hidden=False, force_refresh=True) lists
ListedFiles ==
  LET ret == Walk(fs, FALSE)
  IN  {ret[i].path : i \in {i \in 1..Len(ret) : ret[i].type = "file"}}

\* the extension of the file with that relative path is the extension of a binary file
BinaryPath(r_path) == Lower(Suffix(PathName(r_path))) \in BINARY_EXTENSIONS

\* C29: every file search reports a match in, and every file replace has
\* rewritten, is a file that listAll without hidden files lists on the same
\* tree, and its extension is not the extension of a binary file.
C29_WalkerExclusionRules ==
  /\ resp.op = "search" =>
       \A k \in 1..Len(resp.body.out) :
         resp.body.out[k].path \in ListedFiles /\ ~BinaryPath(resp.body.out[k].path)
  /\ resp.op = "replace" =>
       \A k \in 1..Len(events) :
         events[k].path \in ListedFiles /\ ~BinaryPath(events[k].path)

\* what holds of the code: the files are allowed, not binary, and no folder
\* on their way is hidden or excluded
C29_AllowedNotBinaryNotPruned ==
  LET Fine(r_path) ==
        /\ is_file_allowed(root_dir \o r_path)
        /\ ~BinaryPath(r_path)
        /\ \A i \in 1..(Len(r_path) - 1) :
             r_path[i] \notin EXCLUDED_PATTERNS /\ Head(r_path[i]) # "."
  IN  /\ resp.op = "search" => \A k \in 1..Len(resp.body.out) : Fine(resp.body.out[k].path)
      /\ resp.op = "replace" => \A k \in 1..Len(events) : Fine(events[k].path)

---------------------------------------------------------------------------
(* Claims about the include and exclude globs *)

\* the items of a comma-separated list that are not blank, without the
\* blanks around them
NonBlankItems(list) ==
  {Strip(SplitComma(list)[k]) : k \in 1..Len(SplitComma(list))} \ {<<>>}

\* the relative path or the bare name of c matches one of the globs
MatchesOneOf(c, globs) ==
  \E p \in globs :
    fnmatch(JoinSlash(RelativeTo(c, root_dir)), p) \/ fnmatch(PathName(c), p)

\* what the lists of the last call let through
PassesGlobs(c) ==
  /\ NonBlankItems(resp.body.include) # {} => MatchesOneOf(c, NonBlankItems(resp.body.include))
  /\ ~MatchesOneOf(c, NonBlankItems(resp.body.exclude))

\* the last call was a search or a replace whose pattern could be built
QueryRan ==
  /\ resp.op \in {"search", "replace"}
  /\ CompilePattern(resp.body.query, resp.body.use_regex, resp.body.match_word).ok

\* C30: the files a search or a replace reads are the candidates that match
\* an include glob by path or by name, when the include list has one, and
\* match no exclude glob; a file that matches both is not read, and blank
\* items of a list count for nothing.  No match is reported in and no write
\* is made to any other file.
C30_IncludeExcludeGlobs ==
  QueryRan =>
    LET candidates == IF resp.op = "search" THEN SearchTargets(fs) ELSE ReplaceTargets(fs)
    IN  /\ {t.path : t \in {t \in touched : t.mode = "read"}}
             = {Real(fs, c) : c \in {c \in candidates : PassesGlobs(c) /\ IsFile(fs, c)}}
        /\ resp.op = "search" =>
             \A k \in 1..Len(resp.body.out) : PassesGlobs(root_dir \o resp.body.out[k].path)
        /\ resp.op = "replace" =>
             \A t \in {t \in touched : t.mode = "write"} :
               \E c \in candidates : PassesGlobs(c) /\ Real(fs, c) = t.path

\* C30 witness: the include list has blank items and a glob, a candidate
\* matches both an include and an exclude glob, and matches were found in
\* the files that are left
C30_Witness ==
  /\ QueryRan /\ resp.op = "search"
  /\ NonBlankItems(resp.body.include) # {}
  /\ Len(SplitComma(resp.body.include)) > Cardinality(NonBlankItems(resp.body.include))
  /\ \E c \in SearchTargets(fs) :
       /\ IsFile(fs, c)
       /\ MatchesOneOf(c, NonBlankItems(resp.body.include))
       /\ MatchesOneOf(c, NonBlankItems(resp.body.exclude))
  /\ resp.body.out # <<>>

---------------------------------------------------------------------------
(* Claims about archives *)

\* the last call answered an archive
Archived == resp.op \in {"download_folder", "download_multi"} /\ resp.status = 200

\* the entries of that archive: the name of each member and the file it was read from
ArchiveEntries ==
  IF ~Archived THEN {}
  ELSE IF resp.op = "download_multi"
    THEN {[name |-> m.name, file |-> m.file, item |-> m.item] : m \in resp.body.data}
  ELSE {[name |-> m.name, file |-> sp \o m.name, item |-> 1] :
          m \in resp.body.data, sp \in get_safe_path(fs, root_dir, resp.path)}

\* the name is the name of a hidden or an excluded folder
PrunedName(name) == StartsWithDot(name) \/ name \in EXCLUDED_PATTERNS

\* C31: every member of an archive of a folder or of several paths is a file
\* the allow list passes and whose name does not start with a dot, and no
\* folder on its way inside what was asked for, a requested item itself
\* included, is hidden or excluded.
C31_ArchiveFiltering ==
  \A e \in ArchiveEntries :
    /\ is_file_allowed(e.file)
    /\ ~StartsWithDot(PathName(e.file))
    /\ \A i \in 1..(Len(e.name) - 1) : ~PrunedName(e.name[i])

\* what holds of the code: every member passes the allow list; a member found
\* by walking a folder has no hidden name, and no folder between the walked
\* folder and the member is hidden or excluded
C31_WalkedMembersFiltered ==
  \A e \in ArchiveEntries :
    LET below == IF resp.op = "download_multi" THEN 2 ELSE 1
    IN  /\ is_file_allowed(e.file)
        /\ (resp.op = "download_folder" \/ Len(e.name) > 1) =>
             /\ ~StartsWithDot(PathName(e.file))
             /\ \A i \in below..(Len(e.name) - 1) : ~PrunedName(e.name[i])

\* an archive of several paths holds a hidden file that was asked for by name
C31_HiddenFileArchived ==
  /\ Archived /\ resp.op = "download_multi"
  /\ \E e \in ArchiveEntries : Len(e.name) = 1 /\ StartsWithDot(e.name[1])

\* where the requested path p points, "." and ".." applied and no symlink followed
ItemLocation(p) == JoinRealPath(<<>>, <<>>, root_dir \o LStripSlash(p))

\* where it points once symlinks are followed
ItemResolved(p) == ResolveUnder(fs, root_dir, p)

\* C32: in an archive of a folder the name of a member is the path of its
\* file relative to that folder; in an archive of several paths it is the
\* path of the file relative to the parent of the requested item it came
\* from, and two requested items with the same parent give no two members
\* of the same name.
C32_ArchiveMemberNames ==
  Archived =>
    /\ resp.op = "download_folder" =>
         \A m \in resp.body.data, sp \in get_safe_path(fs, root_dir, resp.path) :
           IsFile(fs, sp \o m.name) /\ fs[Real(fs, sp \o m.name)].content = m.content
    /\ resp.op = "download_multi" =>
         /\ \A e \in ArchiveEntries :
              e.file = Front(ItemLocation(resp.paths[e.item])) \o e.name
         /\ \A e1, e2 \in ArchiveEntries :
              (/\ ItemLocation(resp.paths[e1.item]) # ItemLocation(resp.paths[e2.item])
               /\ Front(ItemLocation(resp.paths[e1.item]))
                    = Front(ItemLocation(resp.paths[e2.item])))
                => e1.name # e2.name

\* what holds of the code: the names are relative to the archived folder, or
\* to the parent of the place a requested path resolves to, and two requested
\* paths that resolve to two places with one parent share no member name
C32_NamesRelativeToResolved ==
  Archived =>
    /\ resp.op = "download_folder" =>
         \A m \in resp.body.data, sp \in get_safe_path(fs, root_dir, resp.path) :
           IsFile(fs, sp \o m.name) /\ fs[Real(fs, sp \o m.name)].content = m.content
    /\ resp.op = "download_multi" =>
         /\ \A e \in ArchiveEntries :
              e.file = Front(ItemResolved(resp.paths[e.item])) \o e.name
         /\ \A e1, e2 \in ArchiveEntries :
              (/\ ItemResolved(resp.paths[e1.item]) # ItemResolved(resp.paths[e2.item])
               /\ Front(ItemResolved(resp.paths[e1.item]))
                    = Front(ItemResolved(resp.paths[e2.item])))
                => e1.name # e2.name

\* an archive of several paths holds two members of one name
C32_TwoMembersOfOneName ==
  /\ Archived /\ resp.op = "download_multi"
  /\ \E e1, e2 \in ArchiveEntries : e1.item # e2.item /\ e1.name = e2.name

---------------------------------------------------------------------------
(* Claims about the event loop *)

\* the event-loop thread stands at "with self._cache_lock" while the walk of a
\* list_all call holds the lock
LoopWaitsForWalk ==
  \E t \in Threads :
    /\ InFireOnLoop(t) /\ threads[t].pc = "fire_lock"
    /\ lock # NoThread /\ threads[lock].op = "list_all"

\* no handler has made a filesystem call on the event-loop thread
C33_NoFilesystemCallOnLoop == \A t \in Threads : ~threads[t].loop_fs

\* the event-loop thread never waits for the lock behind a walk
C33_NoLockWaitOnLoop == ~LoopWaitsForWalk

\* C33: nothing that runs on the event-loop thread (the async handlers and
\* the invalidation they trigger) makes a filesystem call there or waits for
\* the cache lock while the walk of another request's list_all holds it.
C33_EventThreadNeverStalls == C33_NoFilesystemCallOnLoop /\ C33_NoLockWaitOnLoop

\* the create_file requests for path p that answered 200
Created(p) ==
  {t \in Threads : threads[t].op = "create_file" /\ threads[t].path = p
                     /\ threads[t].pc = "done" /\ threads[t].status = 200}

\* C36: of the concurrent create_file requests for one path that does not
\* exist yet at most one answers success, and once all of them have answered
\* the file holds the content of the one that did.
C36_ExclusiveCreation ==
  /\ Cardinality(Created(AsyncNew)) <= 1
  /\ (/\ \A t \in Threads : threads[t].pc \in {"idle", "done"}
      /\ \A t \in Threads : threads[t].op = "write_file" => threads[t].path # AsyncNew)
       => \A t \in Created(AsyncNew) : fs[root_dir \o AsyncNew].content = threads[t].content

\* what replace makes of the content c
Replaced(c) == SubnFrom(c, 1, AsyncQuery, ParseTemplate(AsyncReplacement, 1).out, TRUE, FALSE).out

\* one replace call and one write_file on the same file have both answered,
\* and no other request wrote to that file
ReplaceMetWrite(r, w) ==
  /\ threads[r].op = "global_replace" /\ threads[r].pc = "done"
  /\ threads[w].op = "write_file" /\ threads[w].path = AsyncOld
  /\ threads[w].pc = "done" /\ threads[w].status = 200
  /\ \A u \in Threads \ {r, w} :
       threads[u].op \in {"none", "list_all"} \/ threads[u].path # AsyncOld

\* C37: when a replace call and a write_file on the same file overlap, the
\* file ends with the content one of the two serial orders gives: the written
\* content (replace, then write), or the written content with the
\* replacement made (write, then replace).
C37_NoLostUpdate ==
  \A r, w \in Threads :
    ReplaceMetWrite(r, w) =>
      fs[root_dir \o AsyncOld].content
        \in {threads[w].content, Replaced(threads[w].content)}

\* the entry of the listing "ret" for the file request u wrote shows a size
\* that u's write, or a later write to the same file, left
ShowsChange(ret, u) ==
  \E i \in DOMAIN ret :
    /\ ret[i].type = "file"
    /\ ret[i].path = RelativeTo(threads[u].safe, root_dir)
    /\ \E w \in Threads :
         /\ threads[w].safe = threads[u].safe
         /\ threads[w].ver >= threads[u].ver
         /\ ret[i].size = Len(threads[w].wrote)

\* a list_all call sent after the notifications of "notified" has answered
\* with a listing (the except branch with an empty cache answers [])
AnsweredAfterNotice(t) ==
  /\ threads[t].op = "list_all" /\ threads[t].pc = "done"
  /\ threads[t].how # "empty"
  /\ threads[t].notified # {}

\* C39: a mutating operation changes the filesystem, then empties the cache,
\* then emits its notification; so a list_all without force_refresh that is
\* sent after a notification answers with a listing that shows the notified
\* change, never with an entry captured before it.
C39_InvalidateBeforeNotify ==
  /\ \A u \in Threads :
       (threads[u].fired /\ threads[u].pc = "done") => threads[u].ver > 0
  /\ \A t \in Threads :
       AnsweredAfterNotice(t) => \A u \in threads[t].notified : ShowsChange(threads[t].ret, u)

\* a listing was cached before a change, and a list_all sent after the
\* notification of that change answered with another one
C39_Witness ==
  \E a, t \in Threads :
    /\ AnsweredAfterNotice(t) /\ ~threads[t].force
    /\ threads[a].op = "list_all" /\ threads[a].how = "walk" /\ threads[a].pc = "done"
    /\ threads[a].notified = {}
    /\ \E u \in threads[t].notified : ~ShowsChange(threads[a].ret, u)
    /\ threads[t].ret # threads[a].ret

---------------------------------------------------------------------------
(* Claims about the cache lock under fair scheduling *)

\* the positions inside a with block of the lock
InsideWith == {"check", "walk", "store", "except", "clear"}

\* C38: the cache lock is given back on every way out of list_all (hit,
\* walk, failed walk), of _fire_update and of clear_cache, and no thread takes
\* it while holding it: the holder is always inside its with block; hence,
\* when threads that can go on are run, the calls that have come in all
\* complete: from some point on every thread is idle or done.
C38_LockDeadlockFree ==
  /\ [](\A t \in Threads : lock = t => threads[t].pc \in InsideWith)
  /\ <>[](\A t \in Threads : threads[t].pc \in {"idle", "done"})

\* a hit or a walk, a failed walk and an invalidation have all completed
C38_Witness ==
  /\ \A t \in Threads : threads[t].pc = "done"
  /\ \E t \in Threads : threads[t].how \in {"stale", "empty"}
  /\ \E t \in Threads : threads[t].how \in {"hit", "walk"}
  /\ \E t \in Threads : threads[t].op \in {"fire_update", "clear_cache"}
  /\ lock = NoThread

---------------------------------------------------------------------------
(* Claims about list_directory when a child cannot be read *)

\* the folder the listed path leads to, if it is one
ListedFolder ==
  LET safe == IF resp.path # <<EMPTY>> THEN get_safe_path(fs, root_dir, resp.path)
              ELSE {root_dir}
  IN  {sp \in safe : IsDir(fs, sp)}

\* the filesystem without the children that cannot be read
WithoutDenied ==
  [q \in {p \in DOMAIN fs : \A c \in resp.body.denied :
                              ~(Len(p) >= Len(c) /\ SubSeq(p, 1, Len(c)) = c)} |-> fs[q]]

\* the names of the entries of a listing
EntryPaths(out) ==
  {out.folders[i].path : i \in 1..Len(out.folders)}
    \cup {out.files[i].path : i \in 1..Len(out.files)}

\* C34: list_directory never raises: a path that leaves the sandbox, does not
\* exist or is no folder gives empty folders and files and an error; a folder
\* gives its direct children only, and a child whose stat() raises is left
\* out while the others are listed.
C34_ListOneChildErrors ==
  resp.op = "list_directory" =>
    LET out == resp.body.out IN
    IF ListedFolder = {}
      THEN out.folders = <<>> /\ out.files = <<>> /\ out.error # ""
      ELSE /\ out.error = ""
           /\ \A sp \in ListedFolder :
                EntryPaths(out) \subseteq
                  {ListRelPath(resp.path, PathName(c)) : c \in Children(fs, sp)}
           /\ out = list_directory(WithoutDenied, resp.path, resp.body.show_hidden)

\* what holds of the code: there is always a structured answer, the entries
\* are direct children, and with no unreadable child the listing is complete;
\* an unreadable child makes the whole listing an error
C34_ListOneStructured ==
  resp.op = "list_directory" =>
    LET out == resp.body.out IN
    /\ ListedFolder = {} => out.folders = <<>> /\ out.files = <<>> /\ out.error # ""
    /\ \A sp \in ListedFolder :
         /\ EntryPaths(out) \subseteq
              {ListRelPath(resp.path, PathName(c)) : c \in Children(fs, sp)}
         /\ resp.body.denied = {} =>
              out = list_directory(fs, resp.path, resp.body.show_hidden) /\ out.error = ""
         /\ resp.body.denied # {} =>
              out.folders = <<>> /\ out.files = <<>> /\ out.error = "Permission denied"

\* a folder with several children was listed while one of them could not be read
C34_ChildDenied ==
  /\ resp.op = "list_directory" /\ resp.body.denied # {}
  /\ \E sp \in ListedFolder : Cardinality(Children(fs, sp)) > 1

---------------------------------------------------------------------------
(* Claims about operations that fail partway *)

\* C35: a mutating operation that has changed the filesystem and then fails
\* (upload_folder that extracted some members and then raised) still empties
\* the cache before it returns its error, so a later list_all without
\* force_refresh is not served an entry captured before those changes.
C35_InvalidationOnPartialFailure ==
  [][(nOps' = nOps + 1 /\ resp'.status >= 400 /\ fs' # fs) => cache' = EmptyCache]_vars

\* what holds of the code: an operation that answers success and has changed
\* the filesystem leaves the cache empty
C35_InvalidationOnSuccess ==
  [][(nOps' = nOps + 1 /\ resp'.status = 200 /\ fs' # fs) => cache' = EmptyCache]_vars

---------------------------------------------------------------------------
(* Claims about the websocket layer *)

\* the events the connection c was sent
Received(c) == {ws.sent[c][i].event : i \in {j \in 1..Len(ws.sent[c]) : ws.sent[c][j].type = "event"}}

\* the events fired after the connection c subscribed
FiredSince(c) == {i \in 1..Len(events) : i > ws.subs[c].since}

\* the bus has handed every fired event to its listeners
AllDispatched == ws.seen = Len(events)

\* C40: once a client has subscribed, every change notification a mutating
\* operation emits is forwarded to its connection with the action and the
\* path of the operation, as is the "poll" heartbeat: when the bus has
\* handed out every event, the connection has been sent each of them.
C40_NotificationsForwarded ==
  AllDispatched =>
    \A c \in Conns :
      ws.subs[c].on => \A i \in FiredSince(c) : events[i] \in Received(c)

\* what holds of the code: a subscribed connection is sent the heartbeats,
\* and is sent no event of the file manager
C40_OnlyHeartbeats ==
  /\ AllDispatched =>
       \A c \in Conns : ws.subs[c].on =>
         \A i \in FiredSince(c) : events[i].action = "poll" => events[i] \in Received(c)
  /\ \A c \in Conns : \A e \in Received(c) : e.action = "poll"

\* a connection subscribed, an operation then fired its notification, and
\* the bus has handed it out
C40_FiredAfterSubscribe ==
  /\ AllDispatched
  /\ \E c \in Conns : ws.subs[c].on /\ \E i \in FiredSince(c) : events[i].action # "poll"

=============================================================================
